---- MODULE Spec2Model ----
(***************************************************************************)
(* The Socket.IO relay of src/unnamed/part_000: episode comment rooms      *)
(* (episodeRooms), chat rooms (chatMessages), the transport's room         *)
(* membership (socket.join / socket.leave / io.to(room).emit) and the      *)
(* events each handler emits.  One action per socket event handler.        *)
(***************************************************************************)
EXTENDS Integers, Sequences, FiniteSets, TLC

VARIABLES
    running,        \* the server process is alive (no process.exit yet)
    connected,      \* socket ids with an open connection
    sioRooms,       \* transport rooms: room name -> set of socket ids (socket.join)
    episodeRooms,   \* Map room name -> [animeId, episodeId, comments, users]
    chatMessages,   \* Map room name -> sequence of messages
    now,            \* the server clock, Date.now()
    outbox,         \* socket id -> events delivered to it by the last handler
    lastOp,         \* the event handled last: [op, s, room, arg]
    inflight,       \* the handler call that has begun and not returned yet
    socket,         \* client: `let socket` of src/index.js, 0 while undefined
    ios,            \* client: the sockets io() has returned, in the order made
    effects,        \* client: the runs of the two socket effects, with their closures
    watch,          \* client: the Watch page on screen and its animeId, episodeId
    isOpen,         \* client: ChatSection's isOpen
    shownComments,  \* client: CommentsSection's comments state
    shownMessages,  \* client: ChatSection's messages state
    socketConnected \* client: ChatSection's socketConnected

(* the relay's variables and the page's *)
svars == <<running, connected, sioRooms, episodeRooms, chatMessages, now, outbox, lastOp,
           inflight>>
cvars == <<socket, ios, effects, watch, isOpen, shownComments, shownMessages,
           socketConnected>>
vars == <<svars, cvars>>

---------------------------------------------------------------------------
(* Bounds of the model *)

MaxLen == 2
MaxJoined == 1
MaxCapAppends == 201
MaxEffects == 4
MaxPosts == 2
MaxChatRuns == 3

(* Program constants *)

MAX_COMMENTS == 100
MAX_MESSAGES == 100

(* JavaScript's undefined, for a field or a payload that is not there *)
Undefined == "<undefined>"
NoPayload == [missing |-> TRUE]

(* every value taken for a missing one *)
AlwaysFalsy(v) == TRUE

(* !v for the values a field takes here *)
Falsy(v) == v \in {Undefined, ""}

---------------------------------------------------------------------------
(* Pure helpers *)

(* `${prefix}:${animeId}:${episodeId}` *)
RoomName(prefix, animeId, episodeId) ==
    prefix \o ":" \o animeId \o ":" \o episodeId

EpisodeRoomOf(p) == RoomName("episode", p.animeId, p.episodeId)
(* the chat handlers with the prefix of the comments rooms *)
ChatRoomAsEpisode(p) == RoomName("episode", p.animeId, p.episodeId)
ChatRoomOf(p) == RoomName("chat", p.animeId, p.episodeId)

(* slice(0, n) in place of slice(-n): the head is kept *)
SliceFirst(seq, n) ==
    IF Len(seq) <= n THEN seq ELSE SubSeq(seq, 1, n)

(* the array is left as it is: nothing is cut off *)
SliceNone(seq, n) == seq

(* Array.prototype.slice(-n) *)
SliceLast(seq, n) ==
    IF Len(seq) <= n THEN seq ELSE SubSeq(seq, Len(seq) - n + 1, Len(seq))

(* filter(comment => comment.id === commentId): the test the wrong way round *)
FilterKeepId(seq, commentId) ==
    SelectSeq(seq, LAMBDA c : c.id = commentId)

(* the entries that are kept come out in the opposite order *)
FilterReversed(seq, commentId) ==
    LET kept == SelectSeq(seq, LAMBDA c : c.id # commentId)
    IN [i \in 1..Len(kept) |-> kept[Len(kept) + 1 - i]]

(* Array.prototype.filter(comment => comment.id !== commentId) *)
RECURSIVE FilterOutId(_, _)
FilterOutId(seq, commentId) ==
    IF seq = <<>> THEN <<>>
    ELSE IF Head(seq).id # commentId
         THEN <<Head(seq)>> \o FilterOutId(Tail(seq), commentId)
         ELSE FilterOutId(Tail(seq), commentId)

(* Date.now().toString() + Math.random().toString(36).substr(2, 9) *)
GenerateId(t, rnd) == ToString(t) \o rnd

(* the timestamp is left out *)
NoTimestamp(t) == Undefined

(* new Date().toISOString() *)
IsoString(t) == "T" \o ToString(t)

(* Map helpers *)
MapSet(m, k, v) == [x \in DOMAIN m \cup {k} |-> IF x = k THEN v ELSE m[x]]
MapDelete(m, k) == [x \in DOMAIN m \ {k} |-> m[x]]
EmptyMap == [x \in {} |-> 0]

(* the sockets in a transport room *)
Members(room) == IF room \in DOMAIN sioRooms THEN sioRooms[room] ELSE {}

(* the socket is taken out of every room, not only the one it leaves *)
SioLeaveEvery(rooms, s, room) ==
    [r \in {x \in DOMAIN rooms : rooms[x] \ {s} # {}} |-> rooms[r] \ {s}]

(* the joining socket takes the place of the sockets in the room *)
SioJoinAlone(rooms, s, room) == MapSet(rooms, room, {s})

(* the socket stays in the room it leaves *)
SioLeaveNot(rooms, s, room) == rooms

(* socket.join(room) / socket.leave(room) on the adapter *)
SioJoin(rooms, s, room) ==
    MapSet(rooms, room, (IF room \in DOMAIN rooms THEN rooms[room] ELSE {}) \cup {s})
SioLeave(rooms, s, room) ==
    IF room \notin DOMAIN rooms THEN rooms
    ELSE IF rooms[room] \ {s} = {} THEN MapDelete(rooms, room)
    ELSE [rooms EXCEPT ![room] = @ \ {s}]
(* the transport keeps the socket in its rooms *)
SioLeaveAllNot(rooms, s) == rooms
SioLeaveAll(rooms, s) ==
    LET keep == {r \in DOMAIN rooms : rooms[r] \ {s} # {}}
    IN [r \in keep |-> rooms[r] \ {s}]

(* Event deliveries *)
NoEvents == EmptyMap
Ev(name, data) == [event |-> name, data |-> data]
(* io.emit(name, data): to every connected socket *)
EmitToAll(s, name, data) == [x \in connected |-> <<Ev(name, data)>>]
(* socket.emit(name, data): to this socket only *)
EmitTo(s, name, data) == [x \in {s} |-> <<Ev(name, data)>>]
(* socket.to(room): the room without the sender *)
AudienceWithoutSender(s, room) == Members(room) \ {s}
(* io.emit: every connected socket *)
AudienceEverybody(s, room) == connected

(* one emit to a set of sockets: each of them gets the event once *)
Broadcast(targets, name, data) == [x \in targets |-> <<Ev(name, data)>>]
(* io.to(room) of new_comment, comment_deleted and send_message (sent by s):
   every socket in the transport room, the sender too if it is in it *)
CommentAudience(s, room) == Members(room)
DeleteAudience(s, room) == Members(room)
ChatAudience(s, room) == Members(room)
(* what the last handler delivered to socket s *)
Received(s) == IF s \in DOMAIN outbox THEN outbox[s] ELSE <<>>

(* no handler is on the stack: the event loop takes the next event *)
Idle == [at |-> "idle"]

(* the handler gives the event loop a turn after each of its statements *)
SuspendsEverywhere == {"lookup", "push", "trim"}

(* the points at which the new_comment handler hands control back to the
   event loop before it returns: it has no await and no callback in it *)
SuspensionPoints == {}

(* the event loop takes the next event when no handler is on the stack or
   the one that is has suspended *)
CanDispatch == inflight = Idle \/ inflight.at \in SuspensionPoints

(* roomData of the handler in flight once the map is `rooms`: the reference
   is to the record of the map as long as that record is not deleted *)
Unlinked(call, rooms) ==
    IF call # Idle /\ call.room \notin DOMAIN rooms
    THEN [call EXCEPT !.live = FALSE]
    ELSE call

Op(name, s, room, arg) == [op |-> name, s |-> s, room |-> room, arg |-> arg]

---------------------------------------------------------------------------
(* Initial state: the process has started, nobody is connected *)

Init ==
    /\ running = TRUE
    /\ connected = {}
    /\ sioRooms = EmptyMap
    /\ episodeRooms = EmptyMap
    /\ chatMessages = EmptyMap
    /\ now = 0
    /\ outbox = NoEvents
    /\ lastOp = Op("init", "", "", Undefined)
    /\ inflight = Idle
    /\ socket = 0
    /\ ios = <<>>
    /\ effects = <<>>
    /\ watch = [mounted |-> FALSE, animeId |-> Undefined, episodeId |-> Undefined]
    /\ isOpen = FALSE
    /\ shownComments = <<>>
    /\ shownMessages = <<>>
    /\ socketConnected = FALSE

(* an exception outside a try block: the 'uncaughtException' / 'unhandledRejection'
   handler calls process.exit(1); the connections and the in-memory maps are gone *)
Crash(opname, s) ==
    /\ running' = FALSE
    /\ connected' = {}
    /\ sioRooms' = EmptyMap
    /\ episodeRooms' = EmptyMap
    /\ chatMessages' = EmptyMap
    /\ outbox' = NoEvents
    /\ lastOp' = Op(opname, s, "", NoPayload)
    /\ inflight' = Idle
    /\ UNCHANGED now

(* io.on('connection') *)
Connect(s) ==
    /\ running
    /\ s \notin connected
    /\ connected' = connected \cup {s}
    /\ outbox' = NoEvents
    /\ lastOp' = Op("connection", s, "", Undefined)
    /\ UNCHANGED <<running, sioRooms, episodeRooms, chatMessages, now, inflight>>

(* socket.on('join_episode') *)
JoinEpisode(s, p) ==
    /\ running
    /\ s \in connected
    /\ IF p = NoPayload
       THEN Crash("join_episode", s)
       ELSE LET room == EpisodeRoomOf(p)
                fresh == [animeId |-> p.animeId, episodeId |-> p.episodeId,
                          comments |-> <<>>, users |-> {}]
                old == IF room \in DOMAIN episodeRooms THEN episodeRooms[room] ELSE fresh
                roomData == [old EXCEPT !.users = @ \cup {s}]
            IN /\ sioRooms' = SioJoin(sioRooms, s, room)
               /\ episodeRooms' = MapSet(episodeRooms, room, roomData)
               /\ outbox' = EmitTo(s, "comments_updated", roomData.comments)
               /\ lastOp' = Op("join_episode", s, room, p)
               /\ UNCHANGED <<running, connected, chatMessages, now, inflight>>

(* socket.on('new_comment'); rnd is the draw of Math.random() *)
NewComment(s, comment, rnd) ==
    /\ running
    /\ s \in connected
    /\ IF comment = NoPayload
       THEN \* comment.animeId throws inside the try block
            /\ outbox' = EmitTo(s, "error", [message |-> "Failed to add comment"])
            /\ lastOp' = Op("new_comment", s, "", NoPayload)
            /\ UNCHANGED <<running, connected, sioRooms, episodeRooms, chatMessages, now, inflight>>
       ELSE LET room == EpisodeRoomOf(comment) IN
            IF room \in DOMAIN episodeRooms
            THEN LET roomData == episodeRooms[room]
                     withId == IF Falsy(comment.id)
                               THEN [comment EXCEPT !.id = GenerateId(now, rnd)]
                               ELSE comment
                     stored == IF Falsy(withId.createdAt)
                               THEN [withId EXCEPT !.createdAt = IsoString(now)]
                               ELSE withId
                     pushed == Append(roomData.comments, stored)
                     kept == IF Len(pushed) > MAX_COMMENTS
                             THEN SliceLast(pushed, MAX_COMMENTS)
                             ELSE pushed
                 IN /\ episodeRooms' = [episodeRooms EXCEPT ![room].comments = kept]
                    /\ outbox' = Broadcast(CommentAudience(s, room), "new_comment", stored)
                    /\ lastOp' = Op("new_comment", s, room, comment)
                    /\ UNCHANGED <<running, connected, sioRooms, chatMessages, now, inflight>>
            ELSE /\ outbox' = NoEvents
                 /\ lastOp' = Op("new_comment", s, room, comment)
                 /\ UNCHANGED <<running, connected, sioRooms, episodeRooms, chatMessages, now, inflight>>

(* socket.on('comment_deleted') *)
CommentDeleted(s, p) ==
    /\ running
    /\ s \in connected
    /\ IF p = NoPayload
       THEN Crash("comment_deleted", s)
       ELSE LET room == EpisodeRoomOf(p) IN
            IF room \in DOMAIN episodeRooms
            THEN /\ episodeRooms' = [episodeRooms EXCEPT ![room].comments =
                                        FilterOutId(@, p.commentId)]
                 /\ outbox' = Broadcast(DeleteAudience(s, room), "comment_deleted", p.commentId)
                 /\ lastOp' = Op("comment_deleted", s, room, p)
                 /\ UNCHANGED <<running, connected, sioRooms, chatMessages, now, inflight>>
            ELSE /\ outbox' = NoEvents
                 /\ lastOp' = Op("comment_deleted", s, room, p)
                 /\ UNCHANGED <<running, connected, sioRooms, episodeRooms, chatMessages, now, inflight>>

(* The new_comment handler statement by statement.  A call in flight is
   [at, s, room, arg, comment, live]: the statement done last, the socket,
   the room name, the payload as received, the payload with id and createdAt
   filled in, and whether roomData is still the record of the map. *)

(* l.66-82: the room name, episodeRooms.has(room), episodeRooms.get(room),
   the id and the timestamp; without a record the handler warns and returns *)
NewCommentBegin(s, comment, rnd) ==
    /\ running
    /\ s \in connected
    /\ inflight = Idle
    /\ comment # NoPayload
    /\ LET room == EpisodeRoomOf(comment)
           withId == IF Falsy(comment.id)
                     THEN [comment EXCEPT !.id = GenerateId(now, rnd)]
                     ELSE comment
           stored == IF Falsy(withId.createdAt)
                     THEN [withId EXCEPT !.createdAt = IsoString(now)]
                     ELSE withId
       IN IF room \in DOMAIN episodeRooms
          THEN /\ inflight' = [at |-> "lookup", s |-> s, room |-> room, arg |-> comment,
                                comment |-> stored, live |-> TRUE]
               /\ UNCHANGED <<running, connected, sioRooms, episodeRooms, chatMessages,
                              now, outbox, lastOp>>
          ELSE /\ outbox' = NoEvents
               /\ lastOp' = Op("new_comment", s, room, comment)
               /\ UNCHANGED <<running, connected, sioRooms, episodeRooms, chatMessages,
                              now, inflight>>

(* l.84: roomData.comments.push(comment) *)
NewCommentPush ==
    /\ running
    /\ inflight.at = "lookup"
    /\ episodeRooms' = IF inflight.live
                       THEN [episodeRooms EXCEPT ![inflight.room].comments =
                                Append(@, inflight.comment)]
                       ELSE episodeRooms
    /\ inflight' = [inflight EXCEPT !.at = "push"]
    /\ UNCHANGED <<running, connected, sioRooms, chatMessages, now, outbox, lastOp>>

(* l.87-89: if (roomData.comments.length > 100) roomData.comments = ...slice(-100) *)
NewCommentTrim ==
    /\ running
    /\ inflight.at = "push"
    /\ episodeRooms' = IF inflight.live
                          /\ Len(episodeRooms[inflight.room].comments) > MAX_COMMENTS
                       THEN [episodeRooms EXCEPT ![inflight.room].comments =
                                SliceLast(@, MAX_COMMENTS)]
                       ELSE episodeRooms
    /\ inflight' = [inflight EXCEPT !.at = "trim"]
    /\ UNCHANGED <<running, connected, sioRooms, chatMessages, now, outbox, lastOp>>

(* l.92: io.to(room).emit('new_comment', comment), and the handler returns *)
NewCommentEmit ==
    /\ running
    /\ inflight.at = "trim"
    /\ outbox' = Broadcast(CommentAudience(inflight.s, inflight.room), "new_comment",
                           inflight.comment)
    /\ lastOp' = Op("new_comment", inflight.s, inflight.room, inflight.arg)
    /\ inflight' = Idle
    /\ UNCHANGED <<running, connected, sioRooms, episodeRooms, chatMessages, now>>

(* socket.on('join_chat') *)
JoinChat(s, p) ==
    /\ running
    /\ s \in connected
    /\ IF p = NoPayload
       THEN Crash("join_chat", s)
       ELSE LET room == ChatRoomOf(p) IN
            /\ sioRooms' = SioJoin(sioRooms, s, room)
            /\ chatMessages' = IF room \in DOMAIN chatMessages
                               THEN chatMessages
                               ELSE MapSet(chatMessages, room, <<>>)
            /\ outbox' = NoEvents
            /\ lastOp' = Op("join_chat", s, room, p)
            /\ UNCHANGED <<running, connected, episodeRooms, now, inflight>>

(* the handler with a fence: only a socket that is in the chat room has its
   message stored and sent *)
SendMessageByMember(s, messageData, rnd) ==
    /\ running
    /\ s \in connected
    /\ messageData # NoPayload
    /\ LET room == ChatRoomOf(messageData)
           messages == IF room \in DOMAIN chatMessages
                       THEN chatMessages[room] ELSE <<>>
           messageWithId ==
               [messageData EXCEPT
                   !.id = GenerateId(now, rnd),
                   !.timestamp = IF Falsy(@) THEN IsoString(now) ELSE @]
       IN /\ chatMessages' = IF s \in Members(room)
                             THEN MapSet(chatMessages, room, Append(messages, messageWithId))
                             ELSE chatMessages
          /\ outbox' = IF s \in Members(room)
                       THEN Broadcast(ChatAudience(s, room), "new_message", messageWithId)
                       ELSE NoEvents
          /\ lastOp' = Op("send_message", s, room, messageData)
          /\ UNCHANGED <<running, connected, sioRooms, episodeRooms, now, inflight>>

(* socket.on('send_message'); rnd is the draw of Math.random() *)
SendMessage(s, messageData, rnd) ==
    /\ running
    /\ s \in connected
    /\ IF messageData = NoPayload
       THEN \* messageData.animeId throws inside the try block
            /\ outbox' = EmitTo(s, "error", [message |-> "Failed to send message"])
            /\ lastOp' = Op("send_message", s, "", NoPayload)
            /\ UNCHANGED <<running, connected, sioRooms, episodeRooms, chatMessages, now, inflight>>
       ELSE LET room == ChatRoomOf(messageData)
                messages == IF room \in DOMAIN chatMessages
                            THEN chatMessages[room] ELSE <<>>
                messageWithId ==
                    [messageData EXCEPT
                        !.id = GenerateId(now, rnd),
                        !.timestamp = IF Falsy(@) THEN IsoString(now) ELSE @]
                pushed == Append(messages, messageWithId)
                kept == IF Len(pushed) > MAX_MESSAGES
                        THEN SliceLast(pushed, MAX_MESSAGES)
                        ELSE pushed
            IN /\ chatMessages' = MapSet(chatMessages, room, kept)
               /\ outbox' = Broadcast(ChatAudience(s, room), "new_message", messageWithId)
               /\ lastOp' = Op("send_message", s, room, messageData)
               /\ UNCHANGED <<running, connected, sioRooms, episodeRooms, now, inflight>>

(* a lookup under the episode room's name finds nothing in chatMessages *)
ChatHistoryMissed(room) == <<>>

(* chatMessages.get(room) || [] *)
ChatHistory(room) ==
    IF room \in DOMAIN chatMessages THEN chatMessages[room] ELSE <<>>

(* the handler with the initialisation of join_chat in it: an absent room
   gets a store entry *)
GetChatHistoryCreating(s, p) ==
    /\ running
    /\ s \in connected
    /\ p # NoPayload
    /\ chatMessages' = MapSet(chatMessages, ChatRoomOf(p), ChatHistory(ChatRoomOf(p)))
    /\ outbox' = IF p.callback
                 THEN EmitTo(s, "chat_history", ChatHistory(ChatRoomOf(p)))
                 ELSE NoEvents
    /\ lastOp' = Op("get_chat_history", s, ChatRoomOf(p), p)
    /\ UNCHANGED <<running, connected, sioRooms, episodeRooms, now, inflight>>

(* socket.on('get_chat_history'); p.callback: the client passed a function *)
GetChatHistory(s, p) ==
    /\ running
    /\ s \in connected
    /\ IF p = NoPayload
       THEN Crash("get_chat_history", s)
       ELSE LET room == ChatRoomOf(p)
                messages == ChatHistory(room)
            IN /\ outbox' = IF p.callback
                            THEN EmitTo(s, "chat_history", messages)
                            ELSE NoEvents
               /\ lastOp' = Op("get_chat_history", s, room, p)
               /\ UNCHANGED <<running, connected, sioRooms, episodeRooms, chatMessages, now, inflight>>

(* the user is removed and the room is kept, whoever is left in it *)
DropUserKeepRoom(rooms, s, room) == [rooms EXCEPT ![room].users = @ \ {s}]

(* the cleanup shared by leave_episode and disconnect:
   roomData.users.delete(socket.id); if (users.size === 0) episodeRooms.delete(room) *)
DropUser(rooms, s, room) ==
    IF rooms[room].users \ {s} = {}
    THEN MapDelete(rooms, room)
    ELSE [rooms EXCEPT ![room].users = @ \ {s}]

(* socket.on('leave_episode') *)
LeaveEpisode(s, p) ==
    /\ running
    /\ s \in connected
    /\ IF p = NoPayload
       THEN Crash("leave_episode", s)
       ELSE LET room == EpisodeRoomOf(p) IN
            /\ sioRooms' = SioLeave(sioRooms, s, room)
            /\ episodeRooms' = IF room \in DOMAIN episodeRooms
                               THEN DropUser(episodeRooms, s, room)
                               ELSE episodeRooms
            /\ outbox' = NoEvents
            /\ lastOp' = Op("leave_episode", s, room, p)
            /\ inflight' = Unlinked(inflight, episodeRooms')
            /\ UNCHANGED <<running, connected, chatMessages, now>>

(* socket.on('leave_chat') *)
LeaveChat(s, p) ==
    /\ running
    /\ s \in connected
    /\ IF p = NoPayload
       THEN Crash("leave_chat", s)
       ELSE LET room == ChatRoomOf(p) IN
            /\ sioRooms' = SioLeave(sioRooms, s, room)
            /\ outbox' = NoEvents
            /\ lastOp' = Op("leave_chat", s, room, p)
            /\ UNCHANGED <<running, connected, episodeRooms, chatMessages, now, inflight>>

(* the handler without its loop: the rooms are left as they are *)
DropUserNowhere(rooms, s, todo) == rooms

(* the loop stops after the first room it looks at *)
DropUserFromOne(rooms, s, todo) ==
    IF todo = {} THEN rooms
    ELSE LET room == CHOOSE r \in todo : TRUE
         IN IF s \in rooms[room].users THEN DropUser(rooms, s, room) ELSE rooms

(* for (const [room, roomData] of episodeRooms.entries()) of the disconnect handler *)
RECURSIVE DropUserEverywhere(_, _, _)
DropUserEverywhere(rooms, s, todo) ==
    IF todo = {} THEN rooms
    ELSE LET room == CHOOSE r \in todo : TRUE
             next == IF s \in rooms[room].users
                     THEN DropUser(rooms, s, room)
                     ELSE rooms
         IN DropUserEverywhere(next, s, todo \ {room})

(* socket.on('disconnect'): the transport has left every room of the socket *)
Disconnect(s) ==
    /\ running
    /\ s \in connected
    /\ connected' = connected \ {s}
    /\ sioRooms' = SioLeaveAll(sioRooms, s)
    /\ episodeRooms' = DropUserEverywhere(episodeRooms, s, DOMAIN episodeRooms)
    /\ outbox' = NoEvents
    /\ lastOp' = Op("disconnect", s, "", Undefined)
    /\ inflight' = Unlinked(inflight, episodeRooms')
    /\ UNCHANGED <<running, chatMessages, now>>

---------------------------------------------------------------------------
(* The requests clients send *)

RoomRef(a, e) == [animeId |-> a, episodeId |-> e]

HistoryRequest(r, cb) ==
    [animeId |-> r.animeId, episodeId |-> r.episodeId, callback |-> cb]

CommentPayload(r, c) ==
    [animeId |-> r.animeId, episodeId |-> r.episodeId, id |-> c.id,
     userId |-> c.userId, comment |-> c.comment, createdAt |-> c.createdAt]

DeletePayload(r, commentId, userId, isAdmin) ==
    [animeId |-> r.animeId, episodeId |-> r.episodeId, commentId |-> commentId,
     userId |-> userId, isAdmin |-> isAdmin]

MessagePayload(r, m) ==
    [animeId |-> r.animeId, episodeId |-> r.episodeId, id |-> m.id,
     userId |-> m.userId, text |-> m.text, image |-> m.image,
     timestamp |-> m.timestamp]

CommentsOf(room) ==
    IF room \in DOMAIN episodeRooms THEN episodeRooms[room].comments ELSE <<>>
MessagesOf(room) ==
    IF room \in DOMAIN chatMessages THEN chatMessages[room] ELSE <<>>

RECURSIVE SumOver(_, _)
SumOver(m, todo) ==
    IF todo = {} THEN 0
    ELSE LET k == CHOOSE x \in todo : TRUE
         IN Len(m[k]) + SumOver(m, todo \ {k})

(* entries held by the whole store *)
TotalEntries ==
    SumOver([r \in DOMAIN episodeRooms |-> episodeRooms[r].comments], DOMAIN episodeRooms)
    + SumOver(chatMessages, DOMAIN chatMessages)

(* transport rooms socket s is in *)
JoinedRooms(s) == {r \in DOMAIN sioRooms : s \in sioRooms[r]}

(* time passes on the server *)
Tick ==
    /\ running
    /\ now' = now + 1
    /\ outbox' = NoEvents
    /\ lastOp' = Op("tick", "", "", Undefined)
    /\ UNCHANGED <<running, connected, sioRooms, episodeRooms, chatMessages, inflight>>

CPay(id, userId, text, createdAt) ==
    [id |-> id, userId |-> userId, comment |-> text, createdAt |-> createdAt]
MPay(id, userId, text, image, timestamp) ==
    [id |-> id, userId |-> userId, text |-> text, image |-> image,
     timestamp |-> timestamp]

(* Spec: two clients on one episode, its comments room and its chat room *)
Sessions == {"A", "B"}
Rooms == {RoomRef("42", "3")}
Comments == {CPay(Undefined, "u1", "great ep", Undefined),
             CPay("x", "u2", " ", "T9"),
             CPay("x", "u1", "hi", Undefined)}
Messages == {MPay("x", "u2", Undefined, "img", "T9"),
             MPay(Undefined, "u1", Undefined, Undefined, Undefined)}
DeleteIds == {"x", "0k"}
RandomDraws == {"k", "m"}

DeleteRequesters == {<<"u1", FALSE>>, <<"u2", FALSE>>, <<"u2", TRUE>>}

MayJoin(s, room) == Cardinality(JoinedRooms(s) \cup {room}) <= MaxJoined

Next ==
    \/ \E s \in Sessions : Connect(s)
       /\ UNCHANGED cvars
    \/ \E s \in Sessions : Disconnect(s)
       /\ UNCHANGED cvars
    \/ \E s \in Sessions, p \in Rooms : JoinEpisode(s, p)
       /\ UNCHANGED cvars
    \/ \E s \in Sessions, p \in Rooms : LeaveEpisode(s, p)
       /\ UNCHANGED cvars
    \/ \E s \in Sessions, p \in Rooms : JoinChat(s, p)
       /\ UNCHANGED cvars
    \/ \E s \in Sessions, p \in Rooms : LeaveChat(s, p)
       /\ UNCHANGED cvars
    \/ \E s \in Sessions, p \in Rooms, cb \in BOOLEAN :
          GetChatHistory(s, HistoryRequest(p, cb))
          /\ UNCHANGED cvars
    \/ \E s \in Sessions, r \in Rooms, c \in Comments, rnd \in RandomDraws :
          TotalEntries < MaxLen /\ NewComment(s, CommentPayload(r, c), rnd)
          /\ UNCHANGED cvars
    \/ \E s \in Sessions, r \in Rooms, id \in DeleteIds, q \in DeleteRequesters :
          CommentDeleted(s, DeletePayload(r, id, q[1], q[2]))
          /\ UNCHANGED cvars
    \/ \E s \in Sessions, r \in Rooms, m \in Messages, rnd \in RandomDraws :
          TotalEntries < MaxLen /\ SendMessage(s, MessagePayload(r, m), rnd)
          /\ UNCHANGED cvars
    \/ \E s \in Sessions : JoinEpisode(s, NoPayload)
       /\ UNCHANGED cvars
    \/ \E s \in Sessions : LeaveEpisode(s, NoPayload)
       /\ UNCHANGED cvars
    \/ \E s \in Sessions : JoinChat(s, NoPayload)
       /\ UNCHANGED cvars
    \/ \E s \in Sessions : LeaveChat(s, NoPayload)
       /\ UNCHANGED cvars
    \/ \E s \in Sessions : GetChatHistory(s, NoPayload)
       /\ UNCHANGED cvars
    \/ \E s \in Sessions : NewComment(s, NoPayload, "")
       /\ UNCHANGED cvars
    \/ \E s \in Sessions : CommentDeleted(s, NoPayload)
       /\ UNCHANGED cvars
    \/ \E s \in Sessions : SendMessage(s, NoPayload, "")
       /\ UNCHANGED cvars

Spec == Init /\ [][Next]_vars

---------------------------------------------------------------------------
(* SpecFan: three clients A, B and C and two episodes, each with a comments
   room and a chat room; a client is in at most MaxJoined rooms at a time and
   posts into an empty store *)
FanSessions == {"A", "B", "C"}
FanRooms == {RoomRef("a", "b:c"), RoomRef("a", "c")}
FanComment == CPay(Undefined, "u1", "hi", Undefined)
FanMessage == MPay(Undefined, "u1", "hi", Undefined, Undefined)

NextFan ==
    \/ \E s \in FanSessions : Connect(s)
       /\ UNCHANGED cvars
    \/ \E s \in FanSessions : Disconnect(s)
       /\ UNCHANGED cvars
    \/ \E s \in FanSessions, p \in FanRooms :
          MayJoin(s, EpisodeRoomOf(p)) /\ JoinEpisode(s, p)
          /\ UNCHANGED cvars
    \/ \E s \in FanSessions, p \in FanRooms : LeaveEpisode(s, p)
       /\ UNCHANGED cvars
    \/ \E s \in FanSessions, p \in FanRooms :
          MayJoin(s, ChatRoomOf(p)) /\ JoinChat(s, p)
          /\ UNCHANGED cvars
    \/ \E s \in FanSessions, p \in FanRooms : LeaveChat(s, p)
       /\ UNCHANGED cvars
    \/ \E s \in FanSessions, r \in FanRooms :
          TotalEntries = 0 /\ NewComment(s, CommentPayload(r, FanComment), "k")
          /\ UNCHANGED cvars
    \/ \E s \in FanSessions, r \in FanRooms :
          CommentDeleted(s, DeletePayload(r, "0k", "u1", FALSE))
          /\ UNCHANGED cvars
    \/ \E s \in FanSessions, r \in FanRooms :
          TotalEntries = 0 /\ SendMessage(s, MessagePayload(r, FanMessage), "k")
          /\ UNCHANGED cvars

SpecFan == Init /\ [][NextFan]_vars

---------------------------------------------------------------------------
(* SpecCap: one client fills the comments room and then the chat room of one
   episode, either of them past the cap; the clock advances after every post,
   so that each stored entry carries the time of its post *)
CapRoom == RoomRef("42", "3")
CapComment == CPay(Undefined, "u1", "great ep", Undefined)
CapMessage == MPay(Undefined, "u1", "hi", Undefined, Undefined)
IsPost(op) == op.op \in {"new_comment", "send_message"} /\ op.arg # NoPayload

NextCap ==
    \/ Connect("A")
       /\ UNCHANGED cvars
    \/ TotalEntries = 0 /\ JoinEpisode("A", CapRoom)
       /\ UNCHANGED cvars
    \/ TotalEntries = 0 /\ JoinChat("A", CapRoom)
       /\ UNCHANGED cvars
    \/ /\ ~IsPost(lastOp)
       /\ EpisodeRoomOf(CapRoom) \in DOMAIN episodeRooms
       /\ MessagesOf(ChatRoomOf(CapRoom)) = <<>>
       /\ NewComment("A", CommentPayload(CapRoom, CapComment), "k")
       /\ UNCHANGED cvars
    \/ /\ ~IsPost(lastOp)
       /\ SendMessage("A", MessagePayload(CapRoom, CapMessage), "k")
       /\ UNCHANGED cvars
    \/ /\ IsPost(lastOp)
       /\ now < MaxCapAppends
       /\ Tick
       /\ UNCHANGED cvars

SpecCap == Init /\ [][NextCap]_vars

---------------------------------------------------------------------------
(* SpecRooms: two clients and two episodes; a client may be in the comments
   rooms of both, and a room takes a post while it is empty *)
RoomsSessions == {"A", "B"}
TwoEpisodes == {RoomRef("7", "1"), RoomRef("7", "2")}
RoomsComment == CPay(Undefined, "u1", "hi", Undefined)
RoomsMessage == MPay(Undefined, "u1", "hi", Undefined, Undefined)

NextRooms ==
    \/ \E s \in RoomsSessions : Connect(s)
       /\ UNCHANGED cvars
    \/ \E s \in RoomsSessions : Disconnect(s)
       /\ UNCHANGED cvars
    \/ \E s \in RoomsSessions, p \in TwoEpisodes : JoinEpisode(s, p)
       /\ UNCHANGED cvars
    \/ \E s \in RoomsSessions, p \in TwoEpisodes : LeaveEpisode(s, p)
       /\ UNCHANGED cvars
    \/ \E s \in RoomsSessions, p \in TwoEpisodes : JoinChat(s, p)
       /\ UNCHANGED cvars
    \/ \E s \in RoomsSessions, p \in TwoEpisodes : LeaveChat(s, p)
       /\ UNCHANGED cvars
    \/ \E s \in RoomsSessions, p \in TwoEpisodes :
          GetChatHistory(s, HistoryRequest(p, TRUE))
          /\ UNCHANGED cvars
    \/ \E s \in RoomsSessions, r \in TwoEpisodes :
          /\ CommentsOf(EpisodeRoomOf(r)) = <<>>
          /\ NewComment(s, CommentPayload(r, RoomsComment), "k")
          /\ UNCHANGED cvars
    \/ \E s \in RoomsSessions, r \in TwoEpisodes :
          CommentDeleted(s, DeletePayload(r, "0k", "u1", FALSE))
          /\ UNCHANGED cvars
    \/ \E s \in RoomsSessions, r \in TwoEpisodes :
          /\ MessagesOf(ChatRoomOf(r)) = <<>>
          /\ SendMessage(s, MessagePayload(r, RoomsMessage), "k")
          /\ UNCHANGED cvars

SpecRooms == Init /\ [][NextRooms]_vars

---------------------------------------------------------------------------
(* SpecSteps: two clients on one comments room, the new_comment handler taken
   statement by statement; the event loop starts a handler when CanDispatch
   holds.  The room fills up to the cap and past it. *)
StepSessions == {"A", "B"}
StepRoom == RoomRef("42", "3")
StepComment == CPay(Undefined, "u1", "hi", Undefined)

NextSteps ==
    \/ \E s \in StepSessions : CanDispatch /\ Connect(s)
       /\ UNCHANGED cvars
    \/ \E s \in StepSessions : CanDispatch /\ Disconnect(s)
       /\ UNCHANGED cvars
    \/ \E s \in StepSessions : CanDispatch /\ JoinEpisode(s, StepRoom)
       /\ UNCHANGED cvars
    \/ \E s \in StepSessions : CanDispatch /\ LeaveEpisode(s, StepRoom)
       /\ UNCHANGED cvars
    \/ \E s \in StepSessions :
          CanDispatch /\ CommentDeleted(s, DeletePayload(StepRoom, "0k", "u1", FALSE))
          /\ UNCHANGED cvars
    \/ \E s \in StepSessions :
          NewCommentBegin(s, CommentPayload(StepRoom, StepComment), "k")
          /\ UNCHANGED cvars
    \/ NewCommentPush
       /\ UNCHANGED cvars
    \/ NewCommentTrim
       /\ UNCHANGED cvars
    \/ NewCommentEmit
       /\ UNCHANGED cvars

SpecSteps == Init /\ [][NextSteps]_vars

---------------------------------------------------------------------------
(* SpecKeys: two clients on pages whose ids hold the ':' of the room name;
   a room takes a post while it is empty *)
KeySessions == {"A", "B"}
KeyRefs == {RoomRef("a:b", "c"), RoomRef("a", "b:c"), RoomRef("a", "b")}
KeyComment == CPay(Undefined, "u1", "hi", Undefined)
KeyMessage == MPay(Undefined, "u1", "hi", Undefined, Undefined)

NextKeys ==
    \/ \E s \in KeySessions : Connect(s)
       /\ UNCHANGED cvars
    \/ \E s \in KeySessions : Disconnect(s)
       /\ UNCHANGED cvars
    \/ \E s \in KeySessions, p \in KeyRefs : JoinEpisode(s, p)
       /\ UNCHANGED cvars
    \/ \E s \in KeySessions, p \in KeyRefs : LeaveEpisode(s, p)
       /\ UNCHANGED cvars
    \/ \E s \in KeySessions, r \in KeyRefs :
          /\ CommentsOf(EpisodeRoomOf(r)) = <<>>
          /\ NewComment(s, CommentPayload(r, KeyComment), "k")
          /\ UNCHANGED cvars
    \/ \E s \in KeySessions, r \in KeyRefs :
          /\ MessagesOf(ChatRoomOf(r)) = <<>>
          /\ SendMessage(s, MessagePayload(r, KeyMessage), "k")
          /\ UNCHANGED cvars

SpecKeys == Init /\ [][NextKeys]_vars

---------------------------------------------------------------------------
(* The client of src/index.js: the Watch page with its CommentsSection and
   ChatSection, the module variable `socket`, the sockets io() has made and
   the effect runs with their closures *)

(* the events the page listens to on a socket *)
ListenEvents ==
    {"connect", "disconnect", "connect_error", "new_comment", "comment_deleted",
     "new_message"}

(* the listener that initializeSocket registers itself: it only logs *)
LogOnly == 0

(* the socket.id the server sees for the k-th socket the page has made *)
Sid(k) == "c" \o ToString(k)

(* io(url, opts): a socket that is not connected yet, with the three
   listeners initializeSocket puts on it *)
NewSocket ==
    [connected |-> FALSE,
     listeners |-> [ev \in ListenEvents |->
                       IF ev \in {"connect", "disconnect", "connect_error"}
                       THEN <<LogOnly>> ELSE <<>>],
     sendBuffer |-> <<>>,
     receiveBuffer |-> <<>>,
     acks |-> <<>>]

(* the part of the client the effects work on *)
ClientState(sock, made, runs) == [socket |-> sock, ios |-> made, effects |-> runs]

(* socket.emit(name, data) on socket k; with a callback the ack is owed to
   effect e *)
Emit(cs, k, name, data) ==
    [cs EXCEPT !.ios[k].sendBuffer = Append(@, Ev(name, data))]
EmitWithAck(cs, k, name, data, e) ==
    [cs EXCEPT !.ios[k].sendBuffer = Append(@, Ev(name, data)),
               !.ios[k].acks = Append(@, e)]

(* socket.on(name, fn) with the closure of effect e; socket.off(name) with
   no function: every listener of the event goes *)
On(cs, k, name, e) == [cs EXCEPT !.ios[k].listeners[name] = Append(@, e)]
Off(cs, k, name) == [cs EXCEPT !.ios[k].listeners[name] = <<>>]

PageRef(eff) == [animeId |-> eff.animeId, episodeId |-> eff.episodeId]

(* setupSocket asking for the history before it joins the chat room *)
SetupSocketHistoryFirst(cs, e, k) ==
    LET eff == cs.effects[e]
        done == [cs EXCEPT !.effects[e].at = "done", !.effects[e].socketInstance = k]
    IN IF k = 0 \/ ~eff.isMounted THEN done
       ELSE IF eff.comp = "comments"
       THEN On(On(Emit(done, k, "join_episode", PageRef(eff)),
                  k, "new_comment", e),
               k, "comment_deleted", e)
       ELSE LET heard == On(On(done, k, "connect", e), k, "disconnect", e)
            IN IF ~eff.isOpen THEN heard
               ELSE On(Emit(EmitWithAck(heard, k, "get_chat_history",
                                        HistoryRequest(PageRef(eff), TRUE), e),
                            k, "join_chat", PageRef(eff)),
                       k, "new_message", e)

(* setupSocket after `await initializeSocket()` has given it socket k (0:
   undefined): CommentsSection l.89-106, ChatSection l.368-399 *)
SetupSocket(cs, e, k) ==
    LET eff == cs.effects[e]
        done == [cs EXCEPT !.effects[e].at = "done", !.effects[e].socketInstance = k]
    IN IF k = 0 \/ ~eff.isMounted THEN done
       ELSE IF eff.comp = "comments"
       THEN On(On(Emit(done, k, "join_episode", PageRef(eff)),
                  k, "new_comment", e),
               k, "comment_deleted", e)
       ELSE LET heard == On(On(done, k, "connect", e), k, "disconnect", e)
            IN IF ~eff.isOpen THEN heard
               ELSE EmitWithAck(
                       On(Emit(heard, k, "join_chat", PageRef(eff)),
                          k, "new_message", e),
                       k, "get_chat_history", HistoryRequest(PageRef(eff), TRUE), e)

(* the effect body: isMounted = true; setupSocket().  initializeSocket
   returns the socket there is, or waits for the import when there is none *)
RunEffect(cs, comp, ref, open) ==
    LET e == Len(cs.effects) + 1
        eff == [comp |-> comp, animeId |-> ref.animeId, episodeId |-> ref.episodeId,
                isOpen |-> open, isMounted |-> TRUE, at |-> "import",
                socketInstance |-> 0]
        begun == [cs EXCEPT !.effects = Append(@, eff)]
    IN IF cs.socket = 0 THEN begun ELSE SetupSocket(begun, e, cs.socket)

(* the cleanup the effect returned: CommentsSection l.111-118, ChatSection
   l.404-410; it works on the module variable `socket` *)
Cleanup(cs, e) ==
    LET eff == cs.effects[e]
        k == cs.socket
        gone == [cs EXCEPT !.effects[e].isMounted = FALSE]
    IN IF eff.comp = "comments"
       THEN IF k = 0 THEN gone
            ELSE Emit(Off(Off(gone, k, "new_comment"), k, "comment_deleted"),
                      k, "leave_episode", PageRef(eff))
       ELSE IF k = 0 \/ ~eff.isOpen THEN gone
            ELSE Emit(Off(gone, k, "new_message"), k, "leave_chat", PageRef(eff))

(* the effect run of a component that is in force: its last one *)
LastEffect(runs, comp) ==
    LET mine == {e \in 1..Len(runs) : runs[e].comp = comp}
    IN CHOOSE e \in mine : \A x \in mine : x <= e

(* the Watch page is not on screen *)
NoPage == [mounted |-> FALSE, animeId |-> Undefined, episodeId |-> Undefined]
OnPage(ref) == [mounted |-> TRUE, animeId |-> ref.animeId, episodeId |-> ref.episodeId]

(* the closures of `runs` that listen to `name` on socket `io` and whose
   isMounted is still true *)
LiveListeners(io, runs, name) ==
    SelectSeq(io.listeners[name], LAMBDA l : l # LogOnly /\ runs[l].isMounted)

RECURSIVE Times(_, _)
Times(x, n) == IF n = 0 THEN <<>> ELSE <<x>> \o Times(x, n - 1)

(* what the last handler sent is put on the wire to each socket of the page *)
OnTheWire(made, sent) ==
    [k \in 1..Len(made) |->
        [made[k] EXCEPT !.receiveBuffer =
            @ \o (IF Sid(k) \in DOMAIN sent THEN sent[Sid(k)] ELSE <<>>)]]

---------------------------------------------------------------------------
(* Client actions *)

(* the Watch page is rendered: CommentsSection and ChatSection mount with
   fresh state and their effects run, CommentsSection's first *)
Mount(ref) ==
    /\ ~watch.mounted
    /\ Len(effects) + 2 <= MaxEffects
    /\ LET cs == RunEffect(RunEffect(ClientState(socket, ios, effects),
                                     "comments", ref, FALSE),
                           "chat", ref, FALSE)
       IN /\ ios' = cs.ios
          /\ effects' = cs.effects
    /\ watch' = OnPage(ref)
    /\ isOpen' = FALSE
    /\ shownComments' = <<>>
    /\ shownMessages' = <<>>
    /\ socketConnected' = FALSE
    /\ UNCHANGED <<socket, svars>>

(* the user leaves the page: both cleanups run and the state is gone *)
Unmount ==
    /\ watch.mounted
    /\ LET cs == Cleanup(Cleanup(ClientState(socket, ios, effects),
                                 LastEffect(effects, "comments")),
                         LastEffect(effects, "chat"))
       IN /\ ios' = cs.ios
          /\ effects' = cs.effects
    /\ watch' = NoPage
    /\ isOpen' = FALSE
    /\ shownComments' = <<>>
    /\ shownMessages' = <<>>
    /\ socketConnected' = FALSE
    /\ UNCHANGED <<socket, svars>>

(* the page goes to another episode: [animeId, episodeId] change, so both
   cleanups run and then both effects *)
ChangeEpisode(ref) ==
    /\ watch.mounted
    /\ ref # PageRef(watch)
    /\ Len(effects) + 2 <= MaxEffects
    /\ LET gone == Cleanup(Cleanup(ClientState(socket, ios, effects),
                                   LastEffect(effects, "comments")),
                           LastEffect(effects, "chat"))
           cs == RunEffect(RunEffect(gone, "comments", ref, FALSE),
                           "chat", ref, isOpen)
       IN /\ ios' = cs.ios
          /\ effects' = cs.effects
    /\ watch' = OnPage(ref)
    /\ UNCHANGED <<socket, isOpen, shownComments, shownMessages, socketConnected, svars>>

(* setIsOpen(true) / setIsOpen(false): the chat effect is cleaned up and
   runs again *)
ToggleChat ==
    /\ watch.mounted
    /\ Len(effects) + 1 <= MaxEffects
    /\ LET gone == Cleanup(ClientState(socket, ios, effects),
                           LastEffect(effects, "chat"))
           cs == RunEffect(gone, "chat", PageRef(watch), ~isOpen)
       IN /\ ios' = cs.ios
          /\ effects' = cs.effects
    /\ isOpen' = ~isOpen
    /\ UNCHANGED <<socket, watch, shownComments, shownMessages, socketConnected, svars>>

(* `await import('socket.io-client')` of the oldest waiting call resolves:
   socket = io(...), the three listeners, return socket, and the caller's
   setupSocket goes on with it *)
ImportResolves ==
    LET waiting == {e \in 1..Len(effects) : effects[e].at = "import"} IN
    /\ waiting # {}
    /\ LET e == CHOOSE x \in waiting : \A y \in waiting : x <= y
           k == Len(ios) + 1
           cs == SetupSocket(ClientState(k, Append(ios, NewSocket), effects), e, k)
       IN /\ socket' = k
          /\ ios' = cs.ios
          /\ effects' = cs.effects
    /\ UNCHANGED <<watch, isOpen, shownComments, shownMessages, socketConnected, svars>>

(* socket k of the page gets its connection (the first one or, after a
   drop, the next): the server's 'connection', then 'connect' on the
   client *)
SocketConnects(k) ==
    /\ k \in 1..Len(ios)
    /\ ~ios[k].connected
    /\ Connect(Sid(k))
    /\ ios' = [ios EXCEPT ![k].connected = TRUE]
    /\ socketConnected' =
          IF LiveListeners(ios[k], effects, "connect") # <<>> THEN TRUE
          ELSE socketConnected
    /\ UNCHANGED <<socket, effects, watch, isOpen, shownComments, shownMessages>>

(* the connection of socket k is lost: the server's 'disconnect', what is
   on the wire is lost, then 'disconnect' on the client *)
SocketDrops(k) ==
    /\ k \in 1..Len(ios)
    /\ ios[k].connected
    /\ Disconnect(Sid(k))
    /\ ios' = [ios EXCEPT ![k].connected = FALSE, ![k].sendBuffer = <<>>,
                          ![k].receiveBuffer = <<>>, ![k].acks = <<>>]
    /\ socketConnected' =
          IF LiveListeners(ios[k], effects, "disconnect") # <<>> THEN FALSE
          ELSE socketConnected
    /\ UNCHANGED <<socket, effects, watch, isOpen, shownComments, shownMessages>>

(* the server takes the next event socket k has sent *)
ServerHandles(k) ==
    /\ k \in 1..Len(ios)
    /\ ios[k].connected
    /\ ios[k].sendBuffer # <<>>
    /\ LET pkt == Head(ios[k].sendBuffer) IN
       \/ pkt.event = "join_episode" /\ JoinEpisode(Sid(k), pkt.data)
       \/ pkt.event = "leave_episode" /\ LeaveEpisode(Sid(k), pkt.data)
       \/ pkt.event = "join_chat" /\ JoinChat(Sid(k), pkt.data)
       \/ pkt.event = "leave_chat" /\ LeaveChat(Sid(k), pkt.data)
       \/ pkt.event = "get_chat_history" /\ GetChatHistory(Sid(k), pkt.data)
       \/ pkt.event = "send_message" /\ SendMessage(Sid(k), pkt.data, "k")
    /\ ios' = OnTheWire([ios EXCEPT ![k].sendBuffer = Tail(@)], outbox')
    /\ UNCHANGED <<socket, effects, watch, isOpen, shownComments, shownMessages, socketConnected>>

(* the page takes the next event the server has sent to socket k and calls
   the listeners of that event, or the callback of get_chat_history *)
ClientReceives(k) ==
    /\ k \in 1..Len(ios)
    /\ ios[k].connected
    /\ ios[k].receiveBuffer # <<>>
    /\ LET ev == Head(ios[k].receiveBuffer)
           live == IF ev.event \in ListenEvents
                   THEN Len(LiveListeners(ios[k], effects, ev.event)) ELSE 0
           reply == ev.event = "chat_history"
       IN /\ ios' = [ios EXCEPT ![k].receiveBuffer = Tail(@),
                                ![k].acks = IF reply THEN Tail(@) ELSE @]
          /\ shownComments' =
                IF ev.event = "new_comment" THEN shownComments \o Times(ev.data, live)
                ELSE IF ev.event = "comment_deleted" /\ live > 0
                THEN FilterOutId(shownComments, ev.data)
                ELSE shownComments
          /\ shownMessages' =
                IF ev.event = "new_message" THEN shownMessages \o Times(ev.data, live)
                ELSE IF reply /\ effects[Head(ios[k].acks)].isMounted THEN ev.data
                ELSE shownMessages
    /\ UNCHANGED <<socket, effects, watch, isOpen, socketConnected, svars>>

(* handleSendMessage: the signed-in user sends what is in the input *)
HandleSendMessage(text) ==
    /\ watch.mounted
    /\ isOpen
    /\ socket # 0
    /\ LET cs == Emit(ClientState(socket, ios, effects), socket, "send_message",
                      MessagePayload(PageRef(watch),
                                     MPay(Undefined, "me", text, Undefined, "T0")))
       IN ios' = cs.ios
    /\ UNCHANGED <<socket, effects, watch, isOpen, shownComments, shownMessages, socketConnected, svars>>

---------------------------------------------------------------------------
(* SpecPage: one browser tab on the Watch page of two episodes, against the
   relay; the page is opened, left, taken to the other episode and its chat
   opened and closed, at most MaxEffects effect runs in all, and its
   connections drop and come back *)
PageRefs == {RoomRef("42", "3"), RoomRef("42", "4")}
PageSockets == 1..MaxEffects

NextPage ==
    \/ \E ref \in PageRefs : Mount(ref)
    \/ Unmount
    \/ \E ref \in PageRefs : ChangeEpisode(ref)
    \/ ToggleChat
    \/ ImportResolves
    \/ \E k \in PageSockets : SocketConnects(k)
    \/ \E k \in PageSockets : SocketDrops(k)
    \/ \E k \in PageSockets : ServerHandles(k)
    \/ \E k \in PageSockets : ClientReceives(k)

SpecPage == Init /\ [][NextPage]_vars

---------------------------------------------------------------------------
(* SpecSwitch: the page of SpecPage going from one episode to the other
   while a second user B posts comments and chat messages; at most
   MaxPosts entries are stored at a time *)
LiveComment == CPay(Undefined, "u1", "hi", Undefined)
LiveMessage == MPay(Undefined, "u1", "hi", Undefined, Undefined)

NextSwitch ==
    \/ \E ref \in PageRefs : Mount(ref)
    \/ \E ref \in PageRefs : ChangeEpisode(ref)
    \/ ToggleChat
    \/ ImportResolves
    \/ \E k \in PageSockets : SocketConnects(k)
    \/ \E k \in PageSockets : ServerHandles(k)
    \/ \E k \in PageSockets : ClientReceives(k)
    \/ Connect("B") /\ UNCHANGED cvars
    \/ \E r \in PageRefs :
          /\ TotalEntries < MaxPosts
          /\ NewComment("B", CommentPayload(r, LiveComment), "k")
          /\ ios' = OnTheWire(ios, outbox')
          /\ UNCHANGED <<socket, effects, watch, isOpen, shownComments, shownMessages,
                         socketConnected>>
    \/ \E r \in PageRefs :
          /\ TotalEntries < MaxPosts
          /\ SendMessage("B", MessagePayload(r, LiveMessage), "k")
          /\ ios' = OnTheWire(ios, outbox')
          /\ UNCHANGED <<socket, effects, watch, isOpen, shownComments, shownMessages,
                         socketConnected>>

SpecSwitch == Init /\ [][NextSwitch]_vars

---------------------------------------------------------------------------
(* SpecChat: the page on one episode with its chat opened and closed (at
   most MaxChatRuns effect runs), its user and a second user B sending chat
   messages, and the connection the chat is open on dropping and coming
   back; at most MaxPosts messages are stored *)
ChatRef == RoomRef("42", "3")

NextChat ==
    \/ Mount(ChatRef)
    \/ Len(effects) < MaxChatRuns /\ ToggleChat
    \/ ImportResolves
    \/ \E k \in PageSockets : SocketConnects(k)
    \/ \E k \in PageSockets :
          /\ watch.mounted /\ isOpen
          /\ effects[LastEffect(effects, "chat")].socketInstance = k
          /\ SocketDrops(k)
    \/ \E k \in PageSockets : ServerHandles(k)
    \/ \E k \in PageSockets : ClientReceives(k)
    \/ /\ TotalEntries < MaxPosts
       /\ socket # 0 /\ ios[socket].sendBuffer = <<>>
       /\ HandleSendMessage("mine")
    \/ Connect("B") /\ UNCHANGED cvars
    \/ /\ TotalEntries < MaxPosts
       /\ SendMessage("B", MessagePayload(ChatRef, LiveMessage), "k")
       /\ ios' = OnTheWire(ios, outbox')
       /\ UNCHANGED <<socket, effects, watch, isOpen, shownComments, shownMessages,
                      socketConnected>>

SpecChat == Init /\ [][NextChat]_vars

---------------------------------------------------------------------------
(* What the claims read of the state *)

StoredComments(room) ==
    IF room \in DOMAIN episodeRooms THEN episodeRooms[room].comments ELSE <<>>
StoredMessages(room) ==
    IF room \in DOMAIN chatMessages THEN chatMessages[room] ELSE <<>>
Subscribers(room) ==
    IF room \in DOMAIN sioRooms THEN sioRooms[room] ELSE {}
Delivered(s) == IF s \in DOMAIN outbox THEN outbox[s] ELSE <<>>
Min(a, b) == IF a <= b THEN a ELSE b

(* the last Min(c, Len(seq)) elements of seq, in their order *)
MostRecent(seq, c) ==
    LET n == Min(c, Len(seq)) IN [i \in 1..n |-> seq[Len(seq) - n + i]]

---------------------------------------------------------------------------
(* C1: in every state each room holds at most the cap of entries, and once
   more entries than the cap have been posted to a room its sequence is
   exactly the cap most recently posted ones, in the order of posting.
   Under SpecCap the post made at clock value t carries t in its id and its
   timestamp, the posts so far were made at 0 .. posts-1, the first k of
   them comments and the rest messages. *)
CapEpisode == RoomName("episode", CapRoom.animeId, CapRoom.episodeId)
CapChat == RoomName("chat", CapRoom.animeId, CapRoom.episodeId)
CapPosts == now + (IF IsPost(lastOp) THEN 1 ELSE 0)
PostedComment(t) ==
    [animeId |-> CapRoom.animeId, episodeId |-> CapRoom.episodeId,
     id |-> ToString(t) \o "k", userId |-> "u1", comment |-> "great ep",
     createdAt |-> "T" \o ToString(t)]
PostedMessage(t) ==
    [animeId |-> CapRoom.animeId, episodeId |-> CapRoom.episodeId,
     id |-> ToString(t) \o "k", userId |-> "u1", text |-> "hi",
     image |-> Undefined, timestamp |-> "T" \o ToString(t)]
(* the numbers of comments posted that the stored sequences allow *)
CapSplits ==
    IF Len(StoredComments(CapEpisode)) < MAX_COMMENTS
    THEN {Len(StoredComments(CapEpisode))}
    ELSE IF Len(StoredMessages(CapChat)) < MAX_MESSAGES
         THEN {CapPosts - Len(StoredMessages(CapChat))}
         ELSE 0..CapPosts

C1_CapWindow ==
    /\ \A room \in DOMAIN episodeRooms :
          Len(episodeRooms[room].comments) <= MAX_COMMENTS
    /\ \A room \in DOMAIN chatMessages : Len(chatMessages[room]) <= MAX_MESSAGES
    /\ \E k \in CapSplits :
          /\ k \in 0..CapPosts
          /\ StoredComments(CapEpisode) =
                MostRecent([i \in 1..k |-> PostedComment(i - 1)], MAX_COMMENTS)
          /\ StoredMessages(CapChat) =
                MostRecent([i \in 1..(CapPosts - k) |-> PostedMessage(k + i - 1)],
                           MAX_MESSAGES)

(* the 101st comment has just been posted to the comments room *)
C1_Witness ==
    /\ lastOp.op = "new_comment"
    /\ now = MAX_COMMENTS
    /\ Len(StoredComments(CapEpisode)) = MAX_COMMENTS
    /\ StoredComments(CapEpisode)[1] = PostedComment(1)

---------------------------------------------------------------------------
(* Steps of the comment_deleted handler, read from the state before and after *)

CommentsIn(rooms, room) ==
    IF room \in DOMAIN rooms THEN rooms[room].comments ELSE <<>>
RemoveAt(seq, i) == [j \in 1..(Len(seq) - 1) |-> IF j < i THEN seq[j] ELSE seq[j + 1]]
Matches(seq, id) == {i \in 1..Len(seq) : seq[i].id = id}
EventNames(s, box) ==
    IF s \in DOMAIN box THEN {box[s][i].event : i \in 1..Len(box[s])} ELSE {}
NoticeSent(box) == \E s \in DOMAIN box : "comment_deleted" \in EventNames(s, box)

(* the step is a comment_deleted request with a payload *)
DeleteStep == lastOp'.op = "comment_deleted" /\ lastOp'.arg # NoPayload

(* C2: a delete by id removes exactly one entry, the one with that id, and
   leaves the other entries in place and in order. *)
C2_DeleteExactlyOne ==
    [][(DeleteStep /\ Matches(CommentsIn(episodeRooms, lastOp'.room),
                              lastOp'.arg.commentId) # {})
       => \E i \in Matches(CommentsIn(episodeRooms, lastOp'.room),
                           lastOp'.arg.commentId) :
             CommentsIn(episodeRooms', lastOp'.room)
                = RemoveAt(CommentsIn(episodeRooms, lastOp'.room), i)]_vars

(* C3 as claimed: a delete whose id matches no entry is a no-op: the store
   is unchanged and no deletion notice is sent to the room. *)
C3_UnmatchedDeleteSilent ==
    [][(DeleteStep /\ Matches(CommentsIn(episodeRooms, lastOp'.room),
                              lastOp'.arg.commentId) = {})
       => /\ episodeRooms' = episodeRooms
          /\ ~NoticeSent(outbox')]_vars

(* C3 amended: a delete whose id matches no entry leaves the store unchanged
   and reports nothing to the caller; if the room has a store entry the
   deletion notice still goes, once, to every socket in the room, and if it
   has none nothing is emitted. *)
C3_UnmatchedDelete ==
    [][(DeleteStep /\ Matches(CommentsIn(episodeRooms, lastOp'.room),
                              lastOp'.arg.commentId) = {})
       => /\ episodeRooms' = episodeRooms
          /\ chatMessages' = chatMessages
          /\ outbox' = IF lastOp'.room \in DOMAIN episodeRooms
                       THEN [s \in Subscribers(lastOp'.room) |->
                               <<[event |-> "comment_deleted",
                                  data |-> lastOp'.arg.commentId]>>]
                       ELSE <<>>]_vars

(* a delete has left a room that holds all MaxLen entries of the store: it
   matched nothing, and its notice went out *)
C3_Witness ==
    /\ lastOp.op = "comment_deleted"
    /\ lastOp.arg # NoPayload
    /\ Len(StoredComments(lastOp.room)) = MaxLen
    /\ Delivered(lastOp.s) = <<[event |-> "comment_deleted",
                                data |-> lastOp.arg.commentId]>>

(* C4: a delete by a requester who is neither the author of the comment nor
   an admin is refused: the store is unchanged and no notice is sent. *)
C4_ForeignDeleteRefused ==
    [][(/\ DeleteStep
        /\ Matches(CommentsIn(episodeRooms, lastOp'.room), lastOp'.arg.commentId) # {}
        /\ ~lastOp'.arg.isAdmin
        /\ \A i \in Matches(CommentsIn(episodeRooms, lastOp'.room),
                            lastOp'.arg.commentId) :
              CommentsIn(episodeRooms, lastOp'.room)[i].userId # lastOp'.arg.userId)
       => /\ episodeRooms' = episodeRooms
          /\ ~NoticeSent(outbox')]_vars

(* String.prototype.trim(), for the blanks a body is made of here *)
RECURSIVE TrimStart(_)
TrimStart(str) ==
    IF Len(str) > 0 /\ SubSeq(str, 1, 1) = " " THEN TrimStart(Tail(str)) ELSE str
RECURSIVE TrimEnd(_)
TrimEnd(str) ==
    IF Len(str) > 0 /\ SubSeq(str, Len(str), Len(str)) = " "
    THEN TrimEnd(SubSeq(str, 1, Len(str) - 1))
    ELSE str
Trim(str) == TrimEnd(TrimStart(str))
Blank(body) == body = Undefined \/ Trim(body) = ""

(* C5: no stored comment has an empty or whitespace-only body, and no such
   comment is broadcast. *)
C5_NoBlankComment ==
    /\ \A room \in DOMAIN episodeRooms :
          \A i \in 1..Len(episodeRooms[room].comments) :
             ~Blank(episodeRooms[room].comments[i].comment)
    /\ \A s \in DOMAIN outbox :
          \A i \in 1..Len(outbox[s]) :
             outbox[s][i].event = "new_comment" => ~Blank(outbox[s][i].data.comment)

---------------------------------------------------------------------------
(* Fan-out, under SpecFan *)

OneEvent(name, data) == <<[event |-> name, data |-> data]>>
LastOf(seq) == seq[Len(seq)]
AllIn(room) == FanSessions \subseteq Subscribers(room)
(* the last request was a new_comment that was stored *)
CommentPosted ==
    /\ lastOp.op = "new_comment"
    /\ lastOp.arg # NoPayload
    /\ lastOp.room \in DOMAIN episodeRooms
(* the last request was a send_message that was stored *)
MessageSent == lastOp.op = "send_message" /\ lastOp.arg # NoPayload

(* C6 as claimed: when A, B and C are in one comments room and one of them
   submits a comment, the two others receive exactly one new_comment event
   with the stored entry and the sender receives no event. *)
C6_SenderGetsNothing ==
    (CommentPosted /\ AllIn(lastOp.room))
    => \A s \in FanSessions :
          Delivered(s) = IF s = lastOp.s
                         THEN <<>>
                         ELSE OneEvent("new_comment",
                                       LastOf(StoredComments(lastOp.room)))

(* C6 amended: when A, B and C are in one comments room and one of them
   submits a comment, each of the three, the sender too, receives exactly
   one new_comment event with the stored entry. *)
C6_CommentFanOut ==
    (CommentPosted /\ AllIn(lastOp.room))
    => \A s \in FanSessions :
          Delivered(s) = OneEvent("new_comment", LastOf(StoredComments(lastOp.room)))

C6_Witness ==
    /\ CommentPosted
    /\ AllIn(lastOp.room)
    /\ lastOp.s = "A"
    /\ Len(Delivered("A")) = 1 /\ Len(Delivered("B")) = 1 /\ Len(Delivered("C")) = 1

(* C7: when A, B and C are in one chat room and one of them sends a message,
   each of the three, the sender too, receives exactly one new_message event
   with the stored message. *)
C7_ChatFanOut ==
    (MessageSent /\ AllIn(lastOp.room))
    => \A s \in FanSessions :
          Delivered(s) = OneEvent("new_message", LastOf(StoredMessages(lastOp.room)))

C7_Witness ==
    /\ MessageSent
    /\ AllIn(lastOp.room)
    /\ lastOp.s = "A"
    /\ Len(Delivered("A")) = 1 /\ Len(Delivered("B")) = 1 /\ Len(Delivered("C")) = 1

(* the event a mutation of a room sends to the room *)
MutationEvent ==
    CASE lastOp.op = "new_comment" ->
            OneEvent("new_comment", LastOf(StoredComments(lastOp.room)))
      [] lastOp.op = "comment_deleted" ->
            OneEvent("comment_deleted", lastOp.arg.commentId)
      [] lastOp.op = "send_message" ->
            OneEvent("new_message", LastOf(StoredMessages(lastOp.room)))
(* the last request changed, or was applied to, the store entry of its room *)
MutationApplied ==
    \/ CommentPosted
    \/ MessageSent
    \/ /\ lastOp.op = "comment_deleted"
       /\ lastOp.arg # NoPayload
       /\ lastOp.room \in DOMAIN episodeRooms

(* C8: the event of a mutation of room R reaches each session that is in R
   when the mutation is applied exactly once, and no other session: not one
   that never joined R or has left it, and not one that is in another room
   only, such as the room of the other type for the same ids. *)
C8_BroadcastScope ==
    MutationApplied
    => \A s \in FanSessions :
          Delivered(s) = IF s \in Subscribers(lastOp.room)
                         THEN MutationEvent
                         ELSE <<>>

(* a mutation reached a member of its room while another client sat in the
   room of the other type for the same ids and received nothing *)
C8_Witness ==
    /\ CommentPosted
    /\ Delivered(lastOp.s) # <<>>
    /\ \E s \in FanSessions :
          /\ s \in Subscribers(RoomName("chat", lastOp.arg.animeId, lastOp.arg.episodeId))
          /\ s \notin Subscribers(lastOp.room)
          /\ Delivered(s) = <<>>

---------------------------------------------------------------------------
(* History snapshots and the two room types, under Spec *)

MessagesIn(store, room) == IF room \in DOMAIN store THEN store[room] ELSE <<>>
SubscribersIn(rooms, room) == IF room \in DOMAIN rooms THEN rooms[room] ELSE {}
EpisodeName(p) == RoomName("episode", p.animeId, p.episodeId)
ChatName(p) == RoomName("chat", p.animeId, p.episodeId)
StepOf(names) == lastOp'.op \in names /\ lastOp'.arg # NoPayload

(* C9: the comments sent to a session by join_episode, and the reply to its
   get_chat_history, are the room's stored sequence as it is when the server
   handles the request: the sequence before the handler ran, which the
   handler leaves as it is, and nothing else is sent. *)
C9_HistorySnapshot ==
    [][/\ StepOf({"join_episode"})
          => /\ outbox' = [s \in {lastOp'.s} |->
                             OneEvent("comments_updated",
                                      CommentsIn(episodeRooms, EpisodeName(lastOp'.arg)))]
             /\ CommentsIn(episodeRooms', EpisodeName(lastOp'.arg))
                   = CommentsIn(episodeRooms, EpisodeName(lastOp'.arg))
       /\ (StepOf({"get_chat_history"}) /\ lastOp'.arg.callback)
          => /\ outbox' = [s \in {lastOp'.s} |->
                             OneEvent("chat_history",
                                      MessagesIn(chatMessages, ChatName(lastOp'.arg)))]
             /\ chatMessages' = chatMessages]_vars

(* a session joins a comments room that already holds comments and is sent them *)
C9_Witness ==
    /\ lastOp.op = "join_episode"
    /\ lastOp.arg # NoPayload
    /\ StoredComments(lastOp.room) # <<>>
    /\ Delivered(lastOp.s) = OneEvent("comments_updated", StoredComments(lastOp.room))

(* C10: the comments room and the chat room of one (animeId, episodeId) have
   different names, share no entry and no membership: a request to one of
   them changes neither the entries nor the members of the other. *)
C10_TypesApart ==
    [][/\ StepOf({"join_episode", "leave_episode", "new_comment", "comment_deleted"})
          => /\ EpisodeName(lastOp'.arg) # ChatName(lastOp'.arg)
             /\ chatMessages' = chatMessages
             /\ SubscribersIn(sioRooms', ChatName(lastOp'.arg))
                   = SubscribersIn(sioRooms, ChatName(lastOp'.arg))
       /\ StepOf({"join_chat", "leave_chat", "send_message", "get_chat_history"})
          => /\ episodeRooms' = episodeRooms
             /\ SubscribersIn(sioRooms', EpisodeName(lastOp'.arg))
                   = SubscribersIn(sioRooms, EpisodeName(lastOp'.arg))
       /\ \A r \in Rooms :
             \A i \in 1..Len(CommentsIn(episodeRooms', EpisodeName(r))) :
                \A j \in 1..Len(MessagesIn(chatMessages', ChatName(r))) :
                   CommentsIn(episodeRooms', EpisodeName(r))[i]
                      # MessagesIn(chatMessages', ChatName(r))[j]]_vars

(* a message was sent to the chat room of an episode whose comments room
   has other members and holds a comment *)
C10_Witness ==
    /\ MessageSent
    /\ StoredMessages(lastOp.room) # <<>>
    /\ StoredComments(EpisodeName(lastOp.arg)) # <<>>
    /\ Subscribers(EpisodeName(lastOp.arg)) # Subscribers(lastOp.room)
    /\ Subscribers(EpisodeName(lastOp.arg)) # {}
    /\ Subscribers(lastOp.room) # {}

---------------------------------------------------------------------------
(* Ids and timestamps of stored entries, under Spec *)

(* the ids the server can have generated up to now *)
ServerIds == {ToString(t) \o r : t \in 0..now, r \in {"k", "m"}}
SameId(seq) == {<<i, j>> \in (1..Len(seq)) \X (1..Len(seq)) : i < j /\ seq[i].id = seq[j].id}

(* C11: in every state the ids of the entries stored in one room are pairwise
   distinct, whatever new_comment and send_message requests were made, those
   that carry an id chosen by the client included.  Two ids the server
   generated from the same clock reading and the same random draw are set
   aside: the property is about the ids that clients choose. *)
C11_IdsDistinct ==
    /\ \A room \in DOMAIN episodeRooms :
          \A pair \in SameId(episodeRooms[room].comments) :
             episodeRooms[room].comments[pair[1]].id \in ServerIds
    /\ \A room \in DOMAIN chatMessages :
          \A pair \in SameId(chatMessages[room]) :
             chatMessages[room][pair[1]].id \in ServerIds

---------------------------------------------------------------------------
(* The cap of a comments room, under SpecCap *)

(* n comments have been posted to the comments room, and no message yet *)
CommentsPosted(n) == StoredMessages(CapChat) = <<>> /\ CapPosts = n
(* the comments posted as the (first + 1)-th .. (first + n)-th *)
PostedFrom(first, n) == [i \in 1..n |-> PostedComment(first + i - 1)]

(* C12 as claimed: the cap of a comments room is 200: after 201 comments
   have been posted to one comments room that stays joined, the room holds
   exactly 200 entries and only the entry inserted first is missing. *)
C12_Cap200 ==
    CommentsPosted(201)
    => /\ Len(StoredComments(CapEpisode)) = 200
       /\ StoredComments(CapEpisode) = PostedFrom(1, 200)

(* C12 amended: the cap of a comments room is 100: after 101 comments the
   room holds exactly 100 entries and only the entry inserted first is
   missing, and after 201 comments it holds the 100 posted last. *)
C12_Cap100 ==
    /\ CommentsPosted(101)
       => /\ Len(StoredComments(CapEpisode)) = 100
          /\ StoredComments(CapEpisode) = PostedFrom(1, 100)
    /\ CommentsPosted(201)
       => /\ Len(StoredComments(CapEpisode)) = 100
          /\ StoredComments(CapEpisode) = PostedFrom(101, 100)

(* the 201st comment has just been posted: the room holds the 102nd .. 201st *)
C12_Witness ==
    /\ lastOp.op = "new_comment"
    /\ CommentsPosted(201)
    /\ Len(StoredComments(CapEpisode)) = 100
    /\ StoredComments(CapEpisode)[1].id = "101k"
    /\ StoredComments(CapEpisode)[100].id = "200k"

---------------------------------------------------------------------------
(* What is stored for a request, under Spec *)

Absent(v) == v = "<undefined>" \/ v = ""
ServerTimes == {"T" \o ToString(t) : t \in 0..now}
(* the sockets of the room were sent the entry once each, the others nothing *)
SentToRoom(name, entry) ==
    \A s \in Sessions :
       Delivered(s) = IF s \in Subscribers(lastOp.room)
                      THEN OneEvent(name, entry)
                      ELSE <<>>

(* C13: every accepted comment or chat message is stored with a non-empty id
   and a creation timestamp and with the content fields of the request
   unchanged, and the entry broadcast to the room is the entry stored. *)
C13_StoredAsSent ==
    /\ CommentPosted
       => LET e == LastOf(StoredComments(lastOp.room))
          IN /\ ~Absent(e.id)
             /\ ~Absent(e.createdAt)
             /\ e.animeId = lastOp.arg.animeId
             /\ e.episodeId = lastOp.arg.episodeId
             /\ e.userId = lastOp.arg.userId
             /\ e.comment = lastOp.arg.comment
             /\ SentToRoom("new_comment", e)
    /\ MessageSent
       => LET e == LastOf(StoredMessages(lastOp.room))
          IN /\ ~Absent(e.id)
             /\ ~Absent(e.timestamp)
             /\ e.animeId = lastOp.arg.animeId
             /\ e.episodeId = lastOp.arg.episodeId
             /\ e.userId = lastOp.arg.userId
             /\ e.text = lastOp.arg.text
             /\ e.image = lastOp.arg.image
             /\ SentToRoom("new_message", e)

(* a comment that came without id and timestamp was stored and sent to the
   two members of its room *)
C13_Witness ==
    /\ CommentPosted
    /\ Absent(lastOp.arg.id)
    /\ Absent(lastOp.arg.createdAt)
    /\ Subscribers(lastOp.room) = {"A", "B"}
    /\ Delivered("B") = OneEvent("new_comment", LastOf(StoredComments(lastOp.room)))
    /\ LastOf(StoredComments(lastOp.room)).comment = "great ep"

(* C14 as claimed: new_comment and send_message assign an id and a timestamp
   only when the request lacks them: a supplied id or timestamp is stored
   unchanged and a generated value is used only for a missing field. *)
C14_OnlyWhenMissing ==
    /\ CommentPosted
       => LET e == LastOf(StoredComments(lastOp.room))
          IN /\ IF Absent(lastOp.arg.id)
                THEN e.id \in ServerIds ELSE e.id = lastOp.arg.id
             /\ IF Absent(lastOp.arg.createdAt)
                THEN e.createdAt \in ServerTimes ELSE e.createdAt = lastOp.arg.createdAt
    /\ MessageSent
       => LET e == LastOf(StoredMessages(lastOp.room))
          IN /\ IF Absent(lastOp.arg.id)
                THEN e.id \in ServerIds ELSE e.id = lastOp.arg.id
             /\ IF Absent(lastOp.arg.timestamp)
                THEN e.timestamp \in ServerTimes ELSE e.timestamp = lastOp.arg.timestamp

(* C14 amended: new_comment stores a supplied id and a supplied createdAt
   unchanged and generates each of them only when it is missing;
   send_message stores a supplied timestamp unchanged and generates it only
   when it is missing, but always stores a generated id, in place of a
   supplied one too. *)
C14_IdAndTimestamp ==
    /\ CommentPosted
       => LET e == LastOf(StoredComments(lastOp.room))
          IN /\ IF Absent(lastOp.arg.id)
                THEN e.id \in ServerIds ELSE e.id = lastOp.arg.id
             /\ IF Absent(lastOp.arg.createdAt)
                THEN e.createdAt \in ServerTimes ELSE e.createdAt = lastOp.arg.createdAt
    /\ MessageSent
       => LET e == LastOf(StoredMessages(lastOp.room))
          IN /\ e.id \in ServerIds
             /\ e.id # lastOp.arg.id
             /\ IF Absent(lastOp.arg.timestamp)
                THEN e.timestamp \in ServerTimes ELSE e.timestamp = lastOp.arg.timestamp

(* a message that came with the id "x" and the timestamp "T9" was stored
   under a generated id and with its timestamp *)
C14_Witness ==
    /\ MessageSent
    /\ lastOp.arg.id = "x"
    /\ LastOf(StoredMessages(lastOp.room)).id \in ServerIds
    /\ LastOf(StoredMessages(lastOp.room)).timestamp = "T9"

---------------------------------------------------------------------------
(* Creation of rooms, bad payloads, chat validation and the lifetime of
   rooms, under Spec *)

RequestWas(names) == lastOp.op \in names /\ lastOp.arg # NoPayload

(* C15: a room has a store entry as soon as a session has joined it or an
   entry has been written to it: a new_comment to a comments room nobody has
   joined creates the room and stores the comment, and a send_message to a
   chat room nobody has joined creates the room and stores the message. *)
C15_WriteCreatesRoom ==
    /\ RequestWas({"join_episode", "new_comment"})
       => lastOp.room \in DOMAIN episodeRooms
    /\ RequestWas({"new_comment"})
       => /\ StoredComments(lastOp.room) # <<>>
          /\ LastOf(StoredComments(lastOp.room)).comment = lastOp.arg.comment
    /\ RequestWas({"join_chat", "send_message"})
       => lastOp.room \in DOMAIN chatMessages
    /\ RequestWas({"send_message"})
       => /\ StoredMessages(lastOp.room) # <<>>
          /\ LastOf(StoredMessages(lastOp.room)).text = lastOp.arg.text
          /\ LastOf(StoredMessages(lastOp.room)).image = lastOp.arg.image

(* C17: no client event, whatever its payload, a missing payload on
   join_episode, comment_deleted, join_chat, get_chat_history, leave_episode
   or leave_chat included, terminates the server process. *)
C17_NeverTerminates == running

(* C19: every stored chat message has a text or an image: a send_message
   with neither is not stored and not broadcast. *)
C19_TextOrImage ==
    /\ \A room \in DOMAIN chatMessages :
          \A i \in 1..Len(chatMessages[room]) :
             ~(Absent(chatMessages[room][i].text) /\ Absent(chatMessages[room][i].image))
    /\ \A s \in DOMAIN outbox :
          \A i \in 1..Len(outbox[s]) :
             outbox[s][i].event = "new_message"
             => ~(Absent(outbox[s][i].data.text) /\ Absent(outbox[s][i].data.image))

UsersIn(rooms, room) == IF room \in DOMAIN rooms THEN rooms[room].users ELSE {}
(* the step takes the last member out of the comments room *)
LastMemberGoes(room) ==
    /\ UsersIn(episodeRooms, room) = {lastOp'.s}
    /\ \/ lastOp'.op = "disconnect"
       \/ lastOp'.op = "leave_episode" /\ lastOp'.arg # NoPayload /\ lastOp'.room = room
IsPrefix(old, new) == Len(old) <= Len(new) /\ SubSeq(new, 1, Len(old)) = old

(* C20: while the process runs, the store entry of a comments room is
   destroyed only in a step in which its member set becomes empty (the
   leave_episode or the disconnect of its last member), and in every such
   step; no comments room is kept with an empty member set; the store entry
   of a chat room, once created, is never destroyed, and its messages stay
   whether or not the room has members. *)
C20_RoomLifetime ==
    [][running'
       => /\ \A room \in DOMAIN episodeRooms :
                /\ room \notin DOMAIN episodeRooms' => LastMemberGoes(room)
                /\ LastMemberGoes(room) => room \notin DOMAIN episodeRooms'
          /\ \A room \in DOMAIN episodeRooms' : episodeRooms'[room].users # {}
          /\ \A room \in DOMAIN chatMessages :
                /\ room \in DOMAIN chatMessages'
                /\ IsPrefix(chatMessages[room], chatMessages'[room])
                /\ lastOp'.op # "send_message" => chatMessages'[room] = chatMessages[room]]_vars

(* leave_episode has run for a comments room that now has no store entry and
   no member, while the chat room of the same episode has no member and
   still holds its messages *)
C20_Witness ==
    /\ RequestWas({"leave_episode"})
    /\ lastOp.s \in connected
    /\ lastOp.room \notin DOMAIN episodeRooms
    /\ Subscribers(lastOp.room) = {}
    /\ Subscribers(ChatName(lastOp.arg)) = {}
    /\ Len(StoredMessages(ChatName(lastOp.arg))) = MaxLen

---------------------------------------------------------------------------
(* Disconnects and the isolation of rooms, under SpecRooms *)

(* C16: when a session disconnects without leaving, it is removed from the
   member set of every room it was in: after the disconnect handler the
   session is in no member set, in the store and on the transport, however
   many rooms it had joined; the comments rooms it emptied are removed, and
   the rooms with other members keep these members and their comments. *)
C16_DisconnectCleansUp ==
    [][lastOp'.op = "disconnect"
       => /\ \A room \in DOMAIN episodeRooms' : lastOp'.s \notin episodeRooms'[room].users
          /\ \A room \in DOMAIN sioRooms' : lastOp'.s \notin sioRooms'[room]
          /\ DOMAIN episodeRooms' \subseteq DOMAIN episodeRooms
          /\ \A room \in DOMAIN episodeRooms :
                IF episodeRooms[room].users \ {lastOp'.s} = {}
                THEN room \notin DOMAIN episodeRooms'
                ELSE /\ room \in DOMAIN episodeRooms'
                     /\ episodeRooms'[room].users = episodeRooms[room].users \ {lastOp'.s}
                     /\ episodeRooms'[room].comments = episodeRooms[room].comments
          /\ \A room \in DOMAIN sioRooms :
                SubscribersIn(sioRooms', room) = sioRooms[room] \ {lastOp'.s}
          /\ chatMessages' = chatMessages]_vars

(* A has disconnected: the comments room of one episode is gone, the
   comments room of the other is left to B with its comment *)
C16_Witness ==
    /\ lastOp.op = "disconnect"
    /\ lastOp.s = "A"
    /\ \E r1, r2 \in {"episode:7:1", "episode:7:2"} :
          /\ r1 \notin DOMAIN episodeRooms
          /\ r2 \in DOMAIN episodeRooms
          /\ episodeRooms[r2].users = {"B"}
          /\ Len(episodeRooms[r2].comments) = 1
          /\ Subscribers(r2) = {"B"}

AddressedRequests ==
    {"join_episode", "leave_episode", "new_comment", "comment_deleted",
     "join_chat", "leave_chat", "send_message", "get_chat_history"}
(* map m is the same before and after the step at every key but k *)
SameBut(before, after, k) ==
    /\ DOMAIN before \ {k} = DOMAIN after \ {k}
    /\ \A x \in DOMAIN before \ {k} : after[x] = before[x]

(* C18: a join, leave, append, delete or history request addressed to room R,
   stored or dropped, leaves the stored sequence and the member set of
   every room with another name as they were. *)
C18_RoomIsolation ==
    [][StepOf(AddressedRequests)
       => /\ SameBut(episodeRooms, episodeRooms', lastOp'.room)
          /\ SameBut(chatMessages, chatMessages', lastOp'.room)
          /\ SameBut(sioRooms, sioRooms', lastOp'.room)]_vars

(* A has posted a comment to the comments room of one episode while the
   comments room of the other episode, which A is not in, holds a comment,
   and the chat room of the first episode holds a message *)
C18_Witness ==
    /\ CommentPosted
    /\ lastOp.s = "A"
    /\ lastOp.room = "episode:7:1"
    /\ Len(StoredComments("episode:7:1")) = 1
    /\ Len(StoredComments("episode:7:2")) = 1
    /\ Subscribers("episode:7:2") = {"B"}
    /\ Len(StoredMessages("chat:7:1")) = 1

---------------------------------------------------------------------------
(* The order of the entries of a room, under Spec *)

WithoutId(seq, id) == SelectSeq(seq, LAMBDA c : c.id # id)
(* seq after one more entry was put at its end and the head was cut to the cap *)
Appended(old, new) == new # <<>> /\ new = MostRecent(old \o <<LastOf(new)>>, 100)

(* C21: while the process runs, the entries of a room keep their relative
   order from state to state; an entry leaves the sequence only through a
   delete of its id, through eviction from the head by the cap, or with the
   whole room when it is cleaned up; a new entry goes to the end, and the
   event of each post, sent in the step that stores it to every session in
   the room, carries the entry stored last, so that the events reach a
   session that stays joined in the order of storage. *)
C21_OrderKept ==
    [][running'
       => /\ \A room \in DOMAIN episodeRooms \cap DOMAIN episodeRooms' :
                LET old == episodeRooms[room].comments
                    new == episodeRooms'[room].comments
                IN \/ new = old
                   \/ /\ StepOf({"comment_deleted"}) /\ lastOp'.room = room
                      /\ new = WithoutId(old, lastOp'.arg.commentId)
                   \/ /\ StepOf({"new_comment"}) /\ lastOp'.room = room
                      /\ Appended(old, new)
                      /\ \A s \in SubscribersIn(sioRooms', room) :
                            outbox'[s] = OneEvent("new_comment", LastOf(new))
          /\ \A room \in DOMAIN chatMessages' :
                LET old == MessagesIn(chatMessages, room)
                    new == chatMessages'[room]
                IN \/ new = old
                   \/ /\ StepOf({"send_message"}) /\ lastOp'.room = room
                      /\ Appended(old, new)
                      /\ \A s \in SubscribersIn(sioRooms', room) :
                            outbox'[s] = OneEvent("new_message", LastOf(new))]_vars

(* a comment was posted to a room that held another one: it stands behind
   the older one, and it is what the member B was sent *)
C21_Witness ==
    /\ CommentPosted
    /\ Len(StoredComments(lastOp.room)) = 2
    /\ StoredComments(lastOp.room)[1].comment = "great ep"
    /\ StoredComments(lastOp.room)[2].comment = "hi"
    /\ Delivered("B") = OneEvent("new_comment", StoredComments(lastOp.room)[2])

---------------------------------------------------------------------------
(* Joining and leaving, under SpecRooms *)

(* C22: a join adds the session to the member set of the room; it creates
   the room with an empty sequence only if the room is absent and keeps the
   sequence and the members otherwise; a session that joins a room it is in
   stays in it once, and one leave takes it out. *)
C22_JoinIdempotent ==
    [][/\ StepOf({"join_episode"})
          => /\ lastOp'.room \in DOMAIN episodeRooms'
             /\ episodeRooms'[lastOp'.room].users
                   = UsersIn(episodeRooms, lastOp'.room) \cup {lastOp'.s}
             /\ episodeRooms'[lastOp'.room].comments
                   = CommentsIn(episodeRooms, lastOp'.room)
             /\ SubscribersIn(sioRooms', lastOp'.room)
                   = SubscribersIn(sioRooms, lastOp'.room) \cup {lastOp'.s}
       /\ StepOf({"join_chat"})
          => /\ lastOp'.room \in DOMAIN chatMessages'
             /\ chatMessages'[lastOp'.room] = MessagesIn(chatMessages, lastOp'.room)
             /\ SubscribersIn(sioRooms', lastOp'.room)
                   = SubscribersIn(sioRooms, lastOp'.room) \cup {lastOp'.s}
       /\ StepOf({"leave_episode"})
          => /\ lastOp'.s \notin UsersIn(episodeRooms', lastOp'.room)
             /\ lastOp'.s \notin SubscribersIn(sioRooms', lastOp'.room)
       /\ StepOf({"leave_chat"})
          => lastOp'.s \notin SubscribersIn(sioRooms', lastOp'.room)]_vars

(* A has joined a comments room that holds a comment and has A as its only
   member: the room was there before this join with A in it, and A is in it
   once, the comment kept *)
C22_Witness ==
    /\ RequestWas({"join_episode"})
    /\ lastOp.s = "A"
    /\ Len(StoredComments(lastOp.room)) = 1
    /\ episodeRooms[lastOp.room].users = {"A"}
    /\ Subscribers(lastOp.room) = {"A"}
    /\ Delivered("A") = OneEvent("comments_updated", StoredComments(lastOp.room))

---------------------------------------------------------------------------
(* After a leave, under SpecFan *)

(* C23: once the leave of a session for room R has been handled, the session
   is not in the member set of R; it gets back into it only by a join of its
   own for R; and the event of a mutation of R goes to no session that is
   outside R when the mutation is handled.  So a session that has left R
   receives no event of R until it joins R again. *)
C23_LeftGetsNothing ==
    [][/\ StepOf({"leave_episode", "leave_chat"})
          => /\ lastOp'.s \notin UsersIn(episodeRooms', lastOp'.room)
             /\ lastOp'.s \notin SubscribersIn(sioRooms', lastOp'.room)
       /\ \A room \in DOMAIN sioRooms' :
             \A s \in sioRooms'[room] \ SubscribersIn(sioRooms, room) :
                StepOf({"join_episode", "join_chat"})
                /\ lastOp'.s = s /\ lastOp'.room = room
       /\ \A room \in DOMAIN episodeRooms' :
             \A s \in episodeRooms'[room].users \ UsersIn(episodeRooms, room) :
                StepOf({"join_episode"}) /\ lastOp'.s = s /\ lastOp'.room = room
       /\ StepOf({"new_comment", "comment_deleted", "send_message"})
          => \A s \in DOMAIN outbox' :
                outbox'[s] # <<>> => s \in SubscribersIn(sioRooms, lastOp'.room)]_vars

(* B has posted a comment to a room that C is in too, while A is connected
   and in no room: B and C were sent the comment and A nothing *)
C23_Witness ==
    /\ CommentPosted
    /\ lastOp.s = "B"
    /\ Subscribers(lastOp.room) = {"B", "C"}
    /\ "A" \in connected
    /\ \A room \in DOMAIN sioRooms : "A" \notin sioRooms[room]
    /\ Delivered("A") = <<>>
    /\ Delivered("C") = OneEvent("new_comment", LastOf(StoredComments(lastOp.room)))

---------------------------------------------------------------------------
(* Reads, errors and the outcome of a request, under Spec *)

(* C24: get_chat_history is a pure read: the reply is the sequence the room
   holds, or an empty sequence when the room has no store entry, and no
   state changes: no store entry is created for an absent room and no
   membership changes. *)
C24_HistoryPureRead ==
    [][StepOf({"get_chat_history"})
       => /\ chatMessages' = chatMessages
          /\ episodeRooms' = episodeRooms
          /\ sioRooms' = sioRooms
          /\ connected' = connected
          /\ running' = running
          /\ lastOp'.arg.callback
             => outbox' = [s \in {lastOp'.s} |->
                             <<[event |-> "chat_history",
                                data |-> IF lastOp'.room \in DOMAIN chatMessages
                                         THEN chatMessages[lastOp'.room]
                                         ELSE <<>>]>>]]_vars

(* the history of a chat room without store entry was asked for while the
   comments room of the episode holds comments: the reply is empty and the
   chat room still has no store entry *)
C24_Witness ==
    /\ RequestWas({"get_chat_history"})
    /\ lastOp.arg.callback
    /\ lastOp.room \notin DOMAIN chatMessages
    /\ Delivered(lastOp.s) = OneEvent("chat_history", <<>>)
    /\ Len(StoredComments(EpisodeName(lastOp.arg))) = MaxLen

(* C25: an error event goes only to the session whose request caused it and
   is never broadcast: no session is sent an error event for the request of
   another session. *)
C25_ErrorToCallerOnly ==
    \A s \in DOMAIN outbox :
       \A i \in 1..Len(outbox[s]) :
          outbox[s][i].event = "error" => s = lastOp.s

(* A sent a new_comment without payload from a room it shares with B: A was
   sent the error and B nothing *)
C25_Witness ==
    /\ lastOp.op = "new_comment"
    /\ lastOp.arg = NoPayload
    /\ lastOp.s = "A"
    /\ Subscribers("episode:42:3") = {"A", "B"}
    /\ Delivered("A") = OneEvent("error", [message |-> "Failed to add comment"])
    /\ Delivered("B") = <<>>

(* C26: every new_comment the server receives has a visible outcome: the
   comment is stored and a new_comment event is broadcast to the room, or an
   error event is sent to the sender; none is dropped without an event, one
   addressed to a room without store entry included. *)
C26_VisibleOutcome ==
    lastOp.op = "new_comment"
    => \/ /\ CommentPosted
          /\ \E s \in DOMAIN outbox : "new_comment" \in EventNames(s, outbox)
       \/ "error" \in EventNames(lastOp.s, outbox)

(* C30 as claimed: only a session that is in a room changes the stored
   sequence of the room: a new_comment, comment_deleted or send_message of a session that is
   not a member of the room it addresses leaves the sequence of that room as
   it was. *)
C30_MembersOnly ==
    [][(/\ StepOf({"new_comment", "comment_deleted", "send_message"})
        /\ lastOp'.s \notin SubscribersIn(sioRooms, lastOp'.room))
       => /\ CommentsIn(episodeRooms', lastOp'.room) = CommentsIn(episodeRooms, lastOp'.room)
          /\ MessagesIn(chatMessages', lastOp'.room) = MessagesIn(chatMessages, lastOp'.room)]_vars

(* C30 amended: a session need not be in a room to change its stored
   sequence.  A send_message of any connected session is appended to the
   chat room, which is created if it is absent; a new_comment and a
   comment_deleted of any connected session are applied to a comments room
   that has a store entry, whether or not the sender is in the room; the one
   fence is that a comments room without store entry is left without one. *)
C30_AnyoneWrites ==
    [][/\ StepOf({"send_message"})
          => Appended(MessagesIn(chatMessages, lastOp'.room),
                      MessagesIn(chatMessages', lastOp'.room))
       /\ StepOf({"new_comment"})
          => IF lastOp'.room \in DOMAIN episodeRooms
             THEN Appended(episodeRooms[lastOp'.room].comments,
                           CommentsIn(episodeRooms', lastOp'.room))
             ELSE lastOp'.room \notin DOMAIN episodeRooms'
       /\ StepOf({"comment_deleted"})
          => IF lastOp'.room \in DOMAIN episodeRooms
             THEN CommentsIn(episodeRooms', lastOp'.room)
                     = WithoutId(episodeRooms[lastOp'.room].comments,
                                 lastOp'.arg.commentId)
             ELSE lastOp'.room \notin DOMAIN episodeRooms']_vars

(* A, which is in no room, has sent a message to the chat room that B is in:
   the message is stored and B was sent it *)
C30_Witness ==
    /\ MessageSent
    /\ lastOp.s = "A"
    /\ \A room \in DOMAIN sioRooms : "A" \notin sioRooms[room]
    /\ Subscribers(lastOp.room) = {"B"}
    /\ LastOf(StoredMessages(lastOp.room)).image = lastOp.arg.image
    /\ Delivered("B") = OneEvent("new_message", LastOf(StoredMessages(lastOp.room)))
    /\ Delivered("A") = <<>>

---------------------------------------------------------------------------
(* The member sets of the comments rooms, under SpecRooms *)

(* C28: in every state every comments room that has a store entry has a
   member, and all its members are connected sessions. *)
C28_RoomsHaveMembers ==
    \A room \in DOMAIN episodeRooms :
       /\ episodeRooms[room].users # {}
       /\ episodeRooms[room].users \subseteq connected

(* B has disconnected and A is left alone, connected and the one member of
   the comments rooms of both episodes *)
C28_Witness ==
    /\ lastOp.op = "disconnect"
    /\ lastOp.s = "B"
    /\ connected = {"A"}
    /\ DOMAIN episodeRooms = {"episode:7:1", "episode:7:2"}
    /\ \A room \in DOMAIN episodeRooms : episodeRooms[room].users = {"A"}

IsCommentsRoom(name) == Len(name) >= 8 /\ SubSeq(name, 1, 8) = "episode:"

(* C29: in every state the users set of every comments room is the set of
   the sessions that are in the room on the transport, the set io.to(room)
   sends to, and a comments room without store entry has nobody in it on
   the transport. *)
C29_UsersAreSubscribers ==
    /\ \A room \in DOMAIN episodeRooms :
          episodeRooms[room].users = Subscribers(room)
    /\ \A room \in DOMAIN sioRooms :
          (IsCommentsRoom(room) /\ sioRooms[room] # {}) => room \in DOMAIN episodeRooms

(* A has left the comments room of one episode, which B stays in, and is
   still in the comments room of the other episode with B *)
C29_Witness ==
    /\ RequestWas({"leave_episode"})
    /\ lastOp.s = "A"
    /\ lastOp.room = "episode:7:1"
    /\ UsersIn(episodeRooms, "episode:7:1") = {"B"}
    /\ Subscribers("episode:7:1") = {"B"}
    /\ UsersIn(episodeRooms, "episode:7:2") = {"A", "B"}
    /\ Subscribers("episode:7:2") = {"A", "B"}

---------------------------------------------------------------------------
(* The handlers under interleaving, under SpecSteps *)

(* the step starts a handler: none was in flight, or the one in flight stays
   where it is while the step is taken *)
HandlerStarts == inflight.at = "idle" \/ inflight'.at = inflight.at

(* C27: a handler runs to completion without a suspension point: the step
   after a statement of a handler in flight is the next statement of that
   handler.  So under every interleaving of join_episode, new_comment,
   comment_deleted, leave_episode and disconnect events of different
   sessions on one room, no handler finds a sequence longer than the cap
   when it starts, and no comment is pushed to a room record that has been
   cleaned up: the push goes to the record the map holds. *)
C27_HandlersAtomic ==
    [][/\ inflight.at # "idle" => inflight'.at # inflight.at
       /\ HandlerStarts
          => \A room \in DOMAIN episodeRooms : Len(episodeRooms[room].comments) <= 100
       /\ (inflight.at = "lookup" /\ inflight'.at = "push")
          => /\ inflight.live
             /\ inflight.room \in DOMAIN episodeRooms
             /\ CommentsIn(episodeRooms', inflight.room)
                   = Append(episodeRooms[inflight.room].comments, inflight.comment)]_vars

(* the new_comment handler of A has pushed the 101st comment and not yet cut
   the sequence, in a room that B is in too *)
C27_Witness ==
    /\ inflight.at = "push"
    /\ inflight.s = "A"
    /\ Len(StoredComments("episode:42:3")) = 101
    /\ Subscribers("episode:42:3") = {"A", "B"}

---------------------------------------------------------------------------
(* The room key, under SpecKeys *)

PairOf(p) == <<p.animeId, p.episodeId>>

(* C31: the room key is injective in (anime id, episode id), also for ids
   that hold the ':' of the room name: two requests that name different
   (animeId, episodeId) pairs address different rooms.  A comments room
   keeps the pair of the join that created it, so every request that
   reaches a stored comments room names the pair the room was created for,
   and two requests handled one after the other with different pairs have
   different room names. *)
C31_KeyInjective ==
    [][StepOf(AddressedRequests)
       => /\ lastOp'.room \in DOMAIN episodeRooms
             => PairOf(episodeRooms[lastOp'.room]) = PairOf(lastOp'.arg)
          /\ (RequestWas(AddressedRequests) /\ PairOf(lastOp.arg) # PairOf(lastOp'.arg))
             => lastOp.room # lastOp'.room]_vars

---------------------------------------------------------------------------
(* The page's socket, under SpecPage *)

(* the effect runs whose `await initializeSocket()` has returned *)
Returned == {e \in 1..Len(effects) : effects[e].at = "done"}

(* C32: initializeSocket makes at most one socket connection, however many
   calls there are and however they interleave, the calls of
   CommentsSection and ChatSection before the import has resolved too, and
   every caller is given the same socket. *)
C32_OneSocket ==
    /\ Len(ios) <= 1
    /\ \A e1, e2 \in Returned :
          effects[e1].socketInstance = effects[e2].socketInstance

(* the effect run has emitted its join: setupSocket went past its guard
   with a socket, and the chat was open if it is a chat effect *)
HasJoined(e) ==
    /\ effects[e].isMounted
    /\ effects[e].at = "done"
    /\ effects[e].socketInstance # 0
    /\ effects[e].comp = "chat" => effects[e].isOpen
LeaveOf(eff) ==
    Ev(IF eff.comp = "comments" THEN "leave_episode" ELSE "leave_chat", PageRef(eff))
(* nothing of the page is left to do: it is off screen, no call waits for
   the import and every socket has been connected and has sent what it had
   to send *)
PageGone ==
    /\ ~watch.mounted
    /\ \A e \in 1..Len(effects) : effects[e].at = "done"
    /\ \A k \in 1..Len(ios) : ios[k].connected /\ ios[k].sendBuffer = <<>>

(* C33: when the cleanup of a CommentsSection or ChatSection effect runs
   after the effect has emitted its join for room R, the leave for R is
   emitted on the connection the join was emitted on and the effect's
   listeners are taken off that connection; so once the page is gone and
   everything it sent has been handled, none of its connections is a member
   of a room on the server. *)
C33_LeaveWhereJoined ==
    [][/\ \A e \in 1..Len(effects) :
             (HasJoined(e) /\ ~effects'[e].isMounted)
             => LET k == effects[e].socketInstance IN
                /\ IsPrefix(ios[k].sendBuffer, ios'[k].sendBuffer)
                /\ \E i \in Len(ios[k].sendBuffer) + 1 .. Len(ios'[k].sendBuffer) :
                      ios'[k].sendBuffer[i] = LeaveOf(effects[e])
                /\ \A ev \in ListenEvents \ {"connect", "disconnect"} :
                      \A i \in 1..Len(ios'[k].listeners[ev]) :
                         ios'[k].listeners[ev][i] # e
       /\ PageGone'
          => \A k \in 1..Len(ios') : \A room \in DOMAIN sioRooms' :
                Sid(k) \notin sioRooms'[room]]_vars

---------------------------------------------------------------------------
(* The lists the page shows, under SpecSwitch *)

(* the entries at the end of `new` that `old` does not have when `new` is
   `old` with entries appended, and all of `new` when the list was replaced *)
Added(old, new) ==
    IF IsPrefix(old, new)
    THEN {new[i] : i \in Len(old) + 1 .. Len(new)}
    ELSE {new[i] : i \in 1..Len(new)}

(* C34: after the page has gone from episode E1 to episode E2, no
   new_comment or new_message the server broadcast for the room of E1 is
   appended to the list shown for E2, however the cleanup, the listener
   setup and the broadcasts on the wire interleave: every entry that gets
   into a list of the page is an entry of the episode the page is on. *)
C34_NoForeignEntries ==
    [][/\ \A c \in Added(shownComments, shownComments') : PairOf(c) = PairOf(watch')
       /\ \A m \in Added(shownMessages, shownMessages') : PairOf(m) = PairOf(watch')]_vars

---------------------------------------------------------------------------
(* The connection light of the chat, under SpecPage *)

(* ChatSection is on screen, its setupSocket has registered its listeners
   on a socket and that socket is connected *)
ChatOnline ==
    /\ watch.mounted
    /\ LET eff == effects[LastEffect(effects, "chat")] IN
       /\ eff.at = "done"
       /\ eff.socketInstance # 0
       /\ ios[eff.socketInstance].connected

(* C35: while ChatSection is mounted and the socket is connected,
   socketConnected becomes true and stays true until the socket
   disconnects, also when the socket was connected before ChatSection
   registered its connect listener: in every state in which the chat's
   listeners are in place on a connected socket, socketConnected is true. *)
C35_ConnectedShown == ChatOnline => socketConnected

---------------------------------------------------------------------------
(* The listeners on the page's sockets, under SpecPage *)

(* the listeners one socket has for an event when every effect run that is
   over has taken its own off: initializeSocket's for connect and
   disconnect, and one of the effect run in force *)
ListenerBound(ev) == IF ev \in {"connect", "disconnect"} THEN 2 ELSE 1

(* C37: each effect cleanup takes off every socket listener its effect run
   registered, so the number of listeners a socket has for connect,
   disconnect, new_comment, comment_deleted and new_message stays bounded
   by a constant over any number of episode changes and chat toggles: a
   listener on a socket is initializeSocket's or belongs to an effect run
   that has not been cleaned up. *)
C37_ListenersBounded ==
    \A k \in 1..Len(ios) : \A ev \in ListenEvents \ {"connect_error"} :
       /\ Len(ios[k].listeners[ev]) <= ListenerBound(ev)
       /\ \A i \in 1..Len(ios[k].listeners[ev]) :
             LET l == ios[k].listeners[ev][i] IN
             l = LogOnly \/ effects[l].isMounted

---------------------------------------------------------------------------
(* The chat list of the page against the server's, under SpecChat *)

(* the new_message events on the wire to socket k, oldest first *)
RECURSIVE NewMessagesIn(_)
NewMessagesIn(buffer) ==
    IF buffer = <<>> THEN <<>>
    ELSE (IF Head(buffer).event = "new_message" THEN <<Head(buffer).data>> ELSE <<>>)
         \o NewMessagesIn(Tail(buffer))

(* the chat effect run in force has joined its room on socket k, the reply
   to its get_chat_history has been applied, and the connection it joined
   on is the one the socket still has (the server has the socket in the
   room) *)
HistoryApplied(e, k) ==
    /\ watch.mounted /\ isOpen
    /\ e = LastEffect(effects, "chat")
    /\ HasJoined(e)
    /\ k = effects[e].socketInstance
    /\ \A i \in 1..Len(ios[k].acks) : ios[k].acks[i] # e
    /\ Sid(k) \in Subscribers(ChatRoomOf(effects[e]))

(* C36: for a ChatSection that has opened the chat of room R and stays on
   it, once the reply to get_chat_history has been applied the page's
   message list is the server's history snapshot followed by every message
   stored in R afterwards, each once and in the server's order, events
   being delivered in order on the connection: the list followed by the
   new_message events still on the wire is the sequence the server stores
   for R. *)
C36_ChatListsAgree ==
    \A e \in 1..Len(effects) : \A k \in 1..Len(ios) :
       HistoryApplied(e, k)
       => shownMessages \o NewMessagesIn(ios[k].receiveBuffer)
             = StoredMessages(ChatRoomOf(effects[e]))

(* the page shows the message of B and its own, in the server's order, B's
   from the history reply or from a broadcast *)
C36_Witness ==
    /\ \E e \in 1..Len(effects) : \E k \in 1..Len(ios) : HistoryApplied(e, k)
    /\ Len(shownMessages) = 2
    /\ shownMessages[1].userId = "u1"
    /\ shownMessages[2].userId = "me"
    /\ shownMessages = StoredMessages("chat:42:3")

====
